---------------------------- MODULE Spec2Model ----------------------------
(***************************************************************************)
(* A model of the convex-polygon kernel of dgal (src/geometry.hpp): the    *)
(* rotating-caliper and Sutherland-Hodgeman intersection, the rotating-    *)
(* caliper merge, area, dimension, the signed distances and the composite  *)
(* metrics iou, giou and diou; and of the adjoints of src/geometry_grad.hpp *)
(* that rebuild a result from its flags or accumulate gradients.           *)
(*                                                                         *)
(* Arithmetic.  scalar_t is modelled by exact rationals <<n, d>> in lowest *)
(* terms with d > 0, extended by the three non-finite values of IEEE       *)
(* arithmetic: <<1,0>> (+inf), <<-1,0>> (-inf) and <<0,0>> (NaN).  The     *)
(* operands are polygons with small integer or half-integer coordinates,   *)
(* on which the code's cross products are computed without rounding and    *)
(* every non-zero quantity compared with Numeric::eps() (6e-15) exceeds it *)
(* by many orders of magnitude: eps is therefore a positive quantity       *)
(* smaller than every non-zero value that arises, and each comparison with *)
(* eps is modelled by the comparison with zero it then amounts to (see     *)
(* GtEps, LtEps, GtNegEps, LtNegEps).  Zero carries no sign.               *)
(*                                                                         *)
(* Indices are zero-based as in the code; a polygon is the sequence of its *)
(* vertices, vertex i of the code being element i+1 of the sequence.       *)
(***************************************************************************)
EXTENDS Integers, Sequences, FiniteSets, TLC

---------------------------------------------------------------------------
(* Bounds of the model.                                                    *)

(* The coordinates of the operands range over 0..Grid.                     *)
Grid == 2

(* Rounds of the outer loop of _find_intersection_under_bridge and steps   *)
(* of the pointer v of dimension that are followed before the call is      *)
(* reported as not returning.  Either loop is deterministic in its         *)
(* indices, of which there are at most MaxPoints * MaxPoints pairs, so a   *)
(* run of that many rounds repeats a state and never ends.                 *)
WalkFuel == 16

(* Iterations of the sweep loop of intersect or of merge that are followed *)
(* before the call is reported as not returning.                           *)
SweepFuel == 12

(* Program constants.  MaxPoints is the capacity of an operand (Quad2 is   *)
(* Poly2<scalar_t, 4>).                                                    *)
MaxPoints == 4

---------------------------------------------------------------------------
(* Evaluation order.  With(v, F) is F(v) with v computed once, before F,   *)
(* as an assignment to a local variable of the code computes its right-    *)
(* hand side once; With2 does so for two values.                           *)

With(v, F(_)) == CHOOSE r \in {F(x) : x \in {v}} : TRUE

With2(v, w, F(_, _)) == CHOOSE r \in {F(x, y) : x \in {v}, y \in {w}} : TRUE

---------------------------------------------------------------------------
(* Extended rational arithmetic standing for scalar_t.                     *)

Abs(i) == IF i < 0 THEN -i ELSE i

Sgn(i) == IF i > 0 THEN 1 ELSE IF i < 0 THEN -1 ELSE 0

RECURSIVE GCD(_, _)
GCD(a, b) == IF b = 0 THEN a ELSE With(a % b, LAMBDA m : GCD(b, m))

Norm(n, d) ==
    IF d = 1 THEN <<n, 1>>
    ELSE IF d = 0 THEN <<Sgn(n), 0>>
    ELSE With(GCD(Abs(n), Abs(d)), LAMBDA g :
              IF d > 0 THEN <<n \div g, d \div g>>
                       ELSE <<(-n) \div g, (-d) \div g>>)

Q(i) == <<i, 1>>

Zero == <<0, 1>>
One == <<1, 1>>
Two == <<2, 1>>
NaN == <<0, 0>>
PosInf == <<1, 0>>
NegInf == <<-1, 0>>

IsNaN(a) == a = NaN
IsFinite(a) == a[2] # 0

RNeg(a) == With(a, LAMBDA u : <<-u[1], u[2]>>)

RAdd(a, b) ==
    With2(a, b, LAMBDA u, w :
        IF u[2] = 0 /\ w[2] = 0
        THEN (IF u = w THEN u ELSE NaN)
        ELSE Norm(u[1] * w[2] + w[1] * u[2], u[2] * w[2]))

RSub(a, b) == RAdd(a, RNeg(b))

RMul(a, b) == With2(a, b, LAMBDA u, w : Norm(u[1] * w[1], u[2] * w[2]))

RRecip(a) ==
    With(a, LAMBDA u :
        IF u[1] > 0 THEN <<u[2], u[1]>>
        ELSE IF u[1] < 0 THEN <<-u[2], -u[1]>>
        ELSE IF u[2] = 0 THEN NaN ELSE PosInf)

RDiv(a, b) == RMul(a, RRecip(b))

RLess(a, b) ==
    With2(a, b, LAMBDA u, w :
        IF IsNaN(u) \/ IsNaN(w) THEN FALSE
        ELSE IF u[2] = 0 /\ w[2] = 0 THEN u[1] < w[1]
        ELSE u[1] * w[2] < w[1] * u[2])

RLeq(a, b) ==
    With2(a, b, LAMBDA u, w : ~IsNaN(u) /\ ~IsNaN(w) /\ (u = w \/ RLess(u, w)))

RSign(a) == Sgn(a[1])

(* Comparisons with Numeric::eps(): x > eps, x < eps, x > -eps, x < -eps.  *)
GtEps(x) == RLess(Zero, x)
LtEps(x) == RLeq(x, Zero)
GtNegEps(x) == RLeq(Zero, x)
LtNegEps(x) == RLess(x, Zero)
AbsGtEps(x) == With(x, LAMBDA u : GtEps(u) \/ LtNegEps(u))

---------------------------------------------------------------------------
(* Points, polygons and the index helpers.                                 *)

Pt(x, y) == [x |-> x, y |-> y]

IPt(i, j) == Pt(Q(i), Q(j))

nvertices(p) == Len(p)

vertices(p, i) == p[i + 1]

_mod_inc(i, n) == IF i < n - 1 THEN i + 1 ELSE 0

_mod_dec(i, n) == IF i > 0 THEN i - 1 ELSE n - 1

_cross(p1, p2, t) ==
    With(<<p1, p2, t>>, LAMBDA q :
        RSub(RMul(RSub(q[2].x, q[1].x), RSub(q[3].y, q[2].y)),
             RMul(RSub(q[2].y, q[1].y), RSub(q[3].x, q[2].x))))

line2_from_pp(p1, p2) ==
    With2(p1, p2, LAMBDA u, w :
        [a |-> RSub(w.y, u.y),
         b |-> RSub(u.x, w.x),
         c |-> RSub(RMul(w.x, u.y), RMul(u.x, w.y))])

(* intersect(Line2, Line2): Cramer's rule, the division unguarded.         *)
intersect_ll(l1, l2) ==
    With2(l1, l2, LAMBDA u, v :
        With(RSub(RMul(u.a, v.b), RMul(v.a, u.b)), LAMBDA w :
            Pt(RDiv(RSub(RMul(u.b, v.c), RMul(v.b, u.c)), w),
               RDiv(RSub(RMul(u.c, v.a), RMul(v.c, u.a)), w))))

(* The numerator of distance(Line2, Point2); the code divides it by        *)
(* hypot(a, b) > 0, which changes neither its sign nor the sign of a       *)
(* product of two such distances to the same line.                         *)
distance_lp(l, p) ==
    With2(l, p, LAMBDA u, w : RAdd(RAdd(RMul(u.a, w.x), RMul(u.b, w.y)), u.c))

(* distance(Point2, Point2) squared: the code's hypot, compared and        *)
(* squared again by its callers.                                           *)
distance2_pp(p1, p2) ==
    With2(RSub(p1.x, p2.x), RSub(p1.y, p2.y), LAMBDA dx, dy :
        RAdd(RMul(dx, dx), RMul(dy, dy)))

RECURSIVE area_sum(_, _)
area_sum(p, i) ==
    IF i >= nvertices(p) THEN Zero
    ELSE RAdd(RSub(RMul(vertices(p, i - 1).x, vertices(p, i).y),
                   RMul(vertices(p, i).x, vertices(p, i - 1).y)),
              area_sum(p, i + 1))

area(p) ==
    IF nvertices(p) <= 2 THEN Zero
    ELSE With(nvertices(p), LAMBDA n :
         With(RSub(RMul(vertices(p, n - 1).x, vertices(p, 0).y),
                   RMul(vertices(p, n - 1).y, vertices(p, 0).x)), LAMBDA head :
              RDiv(RAdd(head, area_sum(p, 1)), Two)))

---------------------------------------------------------------------------
(* The helpers of the rotating-caliper sweeps.                             *)

(* _find_extreme<TopRight=true>: the first vertex of greatest y.           *)
RECURSIVE _find_extreme_from(_, _, _)
_find_extreme_from(p, i, idx) ==
    IF i >= nvertices(p) THEN idx
    ELSE IF RLess(vertices(p, idx).y, vertices(p, i).y)
         THEN _find_extreme_from(p, i + 1, i)
         ELSE _find_extreme_from(p, i + 1, idx)

_find_extreme(p) == _find_extreme_from(p, 1, 0)

(* An angle is kept as the vector whose atan2 it is; MinusPi is the        *)
(* constant -_pi the sweeps start from.  _slope_pp is                      *)
(* atan2(dy - eps, dx): the second component of the vector stands for      *)
(* dy - eps.                                                               *)
MinusPi == [mpi |-> TRUE, dx |-> Zero, dy |-> Zero]

_slope_pp(p1, p2) ==
    [mpi |-> FALSE, dx |-> RSub(p2.x, p1.x), dy |-> RSub(p2.y, p1.y)]

(* atan2(dy - eps, dx) lies in (-pi, 0) when dy <= 0 and in (0, pi) when   *)
(* dy > 0.                                                                 *)
AngleHalf(a) == IF RLeq(a.dy, Zero) THEN 0 ELSE 1

(* A faulty variant of AngleLess, under which every angle is below every   *)
(* other.                                                                  *)
AngleLess_always(a, b) == TRUE

(* a < b for two such angles.  Within one half-plane the order is the sign *)
(* of the cross product of (a.dx, a.dy - eps) and (b.dx, b.dy - eps),      *)
(* which is a.dx*b.dy - a.dy*b.dx + eps*(b.dx - a.dx).                     *)
AngleLess(a, b) ==
    IF b.mpi THEN FALSE
    ELSE IF a.mpi THEN TRUE
    ELSE IF AngleHalf(a) # AngleHalf(b) THEN AngleHalf(a) < AngleHalf(b)
    ELSE With(RSub(RMul(a.dx, b.dy), RMul(a.dy, b.dx)), LAMBDA c :
              RLess(Zero, c) \/ (c = Zero /\ RLess(a.dx, b.dx)))

(* A faulty variant of bridge_test, which never rejects a bridge: the      *)
(* first decisive cross product settles the answer.                        *)
bridge_test_first(st, d) ==
    With2(st, d, LAMBDA t, c :
        IF t.found \/ ~AbsGtEps(c) THEN t
        ELSE [t EXCEPT !.found = TRUE, !.reverse = RLess(c, Zero)])

(* One of the four tests of _check_valid_bridge on the cross product d.    *)
bridge_test(st, d) ==
    With2(st, d, LAMBDA t, c :
        IF t.rejected \/ ~AbsGtEps(c) THEN t
        ELSE IF t.found
             THEN (IF t.reverse # RLess(c, Zero)
                   THEN [t EXCEPT !.rejected = TRUE]
                   ELSE t)
             ELSE [t EXCEPT !.found = TRUE, !.reverse = RLess(c, Zero)])

(* _check_valid_bridge: valid is the value returned, reverse the out       *)
(* parameter, failed the assert(false) reached when no test is decisive.   *)
_check_valid_bridge(p1, p2, idx1, idx2) ==
    LET a == vertices(p1, idx1)
        b == vertices(p2, idx2)
        d1 == _cross(a, b, vertices(p1, _mod_dec(idx1, nvertices(p1))))
        d2 == _cross(a, b, vertices(p1, _mod_inc(idx1, nvertices(p1))))
        d3 == _cross(a, b, vertices(p2, _mod_dec(idx2, nvertices(p2))))
        d4 == _cross(a, b, vertices(p2, _mod_inc(idx2, nvertices(p2))))
        s0 == [found |-> FALSE, reverse |-> FALSE, rejected |-> FALSE]
    IN  With(bridge_test(bridge_test(bridge_test(bridge_test(s0, d1), d2), d3), d4),
             LAMBDA s4 :
                 [valid   |-> ~s4.rejected /\ s4.found,
                  reverse |-> s4.reverse,
                  failed  |-> ~s4.rejected /\ ~s4.found])

(* The first inner loop of _find_intersection_under_bridge: walk i2        *)
(* forward along p2 while its next vertex is right of the edge p1a->p1b.   *)
(* hasLast is false while last_dist is -infinity.                          *)
RECURSIVE walk_p2(_, _, _, _, _, _, _)
walk_p2(p1a, p1b, p2, i2, last, hasLast, moved) ==
    With(_mod_inc(i2, nvertices(p2)), LAMBDA nxt :
    With(_cross(p1a, p1b, vertices(p2, nxt)), LAMBDA dist :
        IF hasLast /\ RLess(dist, last)
        THEN [ret |-> FALSE, i |-> i2, moved |-> moved]
        ELSE IF GtNegEps(dist)
        THEN [ret |-> TRUE, i |-> i2, moved |-> moved]
        ELSE walk_p2(p1a, p1b, p2, nxt, dist, TRUE, TRUE)))

(* The second inner loop: walk i1 backward along p1 while its previous     *)
(* vertex is right of the edge p2a->p2b.                                   *)
RECURSIVE walk_p1(_, _, _, _, _, _, _)
walk_p1(p2a, p2b, p1, i1, last, hasLast, moved) ==
    With(_mod_dec(i1, nvertices(p1)), LAMBDA prv :
    With(_cross(p2a, p2b, vertices(p1, prv)), LAMBDA dist :
        IF hasLast /\ RLess(dist, last)
        THEN [ret |-> FALSE, i |-> i1, moved |-> moved]
        ELSE IF GtNegEps(dist)
        THEN [ret |-> TRUE, i |-> i1, moved |-> moved]
        ELSE walk_p1(p2a, p2b, p1, prv, dist, TRUE, TRUE)))

(* One round of the outer loop of _find_intersection_under_bridge: the two *)
(* inner loops from (i1, i2).  ret is "no" for a return of false, "yes"    *)
(* when neither index moved, "again" for another round; i1 and i2 are the  *)
(* indices at the end of the round.                                        *)
under_bridge_round(p1, p2, i1, i2) ==
    With(walk_p2(vertices(p1, _mod_dec(i1, nvertices(p1))), vertices(p1, i1),
                 p2, i2, Zero, FALSE, FALSE), LAMBDA w2 :
        IF ~w2.ret THEN [ret |-> "no", i1 |-> i1, i2 |-> w2.i]
        ELSE With(walk_p1(vertices(p2, w2.i),
                          vertices(p2, _mod_inc(w2.i, nvertices(p2))),
                          p1, i1, Zero, FALSE, FALSE), LAMBDA w1 :
            [ret |-> IF ~w1.ret THEN "no"
                     ELSE IF ~w2.moved /\ ~w1.moved THEN "yes" ELSE "again",
             i1 |-> w1.i, i2 |-> w2.i]))

(* _find_intersection_under_bridge: found is the value returned, xidx1 and *)
(* xidx2 the out parameters.  hang marks a run of the outer loop longer    *)
(* than WalkFuel rounds.                                                   *)
RECURSIVE find_under_bridge(_, _, _, _, _)
find_under_bridge(p1, p2, i1, i2, fuel) ==
    With(under_bridge_round(p1, p2, i1, i2), LAMBDA w :
        IF w.ret = "no"
        THEN [found |-> FALSE, hang |-> FALSE, xidx1 |-> 0, xidx2 |-> 0]
        ELSE IF w.ret = "yes"
        THEN [found |-> TRUE, hang |-> FALSE,
              xidx1 |-> _mod_dec(w.i1, nvertices(p1)), xidx2 |-> w.i2]
        ELSE IF fuel = 0
        THEN [found |-> FALSE, hang |-> TRUE, xidx1 |-> 0, xidx2 |-> 0]
        ELSE find_under_bridge(p1, p2, w.i1, w.i2, fuel - 1))

_find_intersection_under_bridge(p1, p2, idx1, idx2) ==
    find_under_bridge(p1, p2, idx1, idx2, WalkFuel)

---------------------------------------------------------------------------
(* intersect(AlgorithmT::RotatingCaliper, p1, p2, xflags).                 *)

(* The result of a call: ret is "ok" when the call returns, "assert" when  *)
(* an assertion fails, "hang" when a loop does not end and "overflow" when *)
(* a vertex is written past the capacity of the result; nvertices of the   *)
(* returned polygon is Len(poly), and flags holds the entries of the flag  *)
(* array the call wrote.  nx is the number of crossings the rotating-      *)
(* caliper sweep had recorded when the call ended, and swept tells that    *)
(* its sweep loop ran to its break (rather than returning from inside).    *)
Result(ret, poly, flags, nx, swept) ==
    [ret |-> ret, poly |-> poly, flags |-> flags, nx |-> nx, swept |-> swept]

(* The capacity MaxPoints1 + MaxPoints2 of the returned polygon.           *)
Capacity == MaxPoints + MaxPoints

(* One turn of the sweep loop that chose the edge of angle `angle`,        *)
(* leading to the candidate bridge (p1[b1], p2[b2]); onP1 tells whose      *)
(* pointer advances.                                                       *)
rc_turn(p1, p2, s, b1, b2, onP1, angle) ==
    LET adv == [s EXCEPT !.pidx1 = IF onP1 THEN _mod_inc(s.pidx1, nvertices(p1)) ELSE @,
                         !.pidx2 = IF onP1 THEN @ ELSE _mod_inc(s.pidx2, nvertices(p2)),
                         !.edge_angle = angle]
    IN  With(_check_valid_bridge(p1, p2, b1, b2), LAMBDA br :
            IF br.failed THEN [s EXCEPT !.ret = "assert"]
            ELSE IF ~br.valid THEN adv
            ELSE With(IF br.reverse
                      THEN _find_intersection_under_bridge(p1, p2, b1, b2)
                      ELSE With(_find_intersection_under_bridge(p2, p1, b2, b1),
                                LAMBDA g : [g EXCEPT !.xidx1 = g.xidx2,
                                                     !.xidx2 = g.xidx1]),
                      LAMBDA f :
                IF f.hang THEN [s EXCEPT !.ret = "hang"]
                ELSE IF ~f.found THEN [s EXCEPT !.ret = "empty"]
                ELSE [adv EXCEPT !.edge_flag = IF s.nx = 0 THEN ~br.reverse ELSE @,
                                 !.x1indices = Append(@, f.xidx1),
                                 !.x2indices = Append(@, f.xidx2),
                                 !.nx = @ + 1]))

(* The body of the sweep loop entered in the state c.                      *)
rc_step(p1, p2, c) ==
    With2(_mod_inc(c.pidx1, nvertices(p1)), _mod_inc(c.pidx2, nvertices(p2)),
          LAMBDA pidx1_next, pidx2_next :
    With2(_slope_pp(vertices(p1, c.pidx1), vertices(p1, pidx1_next)),
          _slope_pp(vertices(p2, c.pidx2), vertices(p2, pidx2_next)),
          LAMBDA angle1, angle2 :
        IF AngleLess(c.edge_angle, angle1)
           /\ (AngleLess(angle1, angle2) \/ AngleLess(angle2, c.edge_angle))
        THEN rc_turn(p1, p2, c, pidx1_next, c.pidx2, TRUE, angle1)
        ELSE IF AngleLess(c.edge_angle, angle2)
                /\ (AngleLess(angle2, angle1) \/ AngleLess(angle1, c.edge_angle))
        THEN rc_turn(p1, p2, c, c.pidx1, pidx2_next, FALSE, angle2)
        ELSE [c EXCEPT !.ret = "break"]))

(* The sweep loop, from the state s to the state at its exit.              *)
RECURSIVE rc_sweep(_, _, _)
rc_sweep(p1, p2, s) ==
    IF s.ret # "run" THEN s
    ELSE IF s.iters >= SweepFuel THEN [s EXCEPT !.ret = "hang"]
    ELSE With(With([s EXCEPT !.iters = @ + 1], LAMBDA c : rc_step(p1, p2, c)),
              LAMBDA t : rc_sweep(p1, p2, t))

rc_start(p1, p2) ==
    [pidx1 |-> _find_extreme(p1), pidx2 |-> _find_extreme(p2),
     edge_angle |-> MinusPi, edge_flag |-> FALSE, nx |-> 0,
     x1indices |-> <<>>, x2indices |-> <<>>, ret |-> "run", iters |-> 0]

(* Appending one vertex and its flag to the result under construction,     *)
(* with the assertion on the capacity that follows every append.           *)
rc_push(r, v, flag) ==
    IF r.ret # "ok" THEN r
    ELSE [r EXCEPT !.poly = Append(@, v), !.flags = Append(@, flag),
                   !.ret = IF Len(r.poly) + 1 <= Capacity THEN "ok" ELSE "assert"]

(* The loop adding the vertices j..idx_next of the operand p, whose flags  *)
(* have the low bit `bit`.                                                 *)
RECURSIVE rc_between(_, _, _, _, _)
rc_between(p, bit, j, idx_next, r) ==
    IF j > idx_next \/ r.ret # "ok" THEN r
    ELSE With(IF j < nvertices(p) THEN j ELSE j - nvertices(p), LAMBDA jmod :
         With2(j + 1, rc_push(r, vertices(p, jmod), (jmod * 2) + bit),
               LAMBDA jnext, rnext : rc_between(p, bit, jnext, idx_next, rnext)))

(* The loop over the crossings that builds the result polygon; x1 and x2   *)
(* carry the sentinel entry.                                               *)
RECURSIVE rc_stitch(_, _, _, _, _, _, _, _)
rc_stitch(p1, p2, x1, x2, nx, i, edge_flag, r) ==
    IF i >= nx \/ r.ret # "ok" THEN r
    ELSE LET a1 == x1[i + 1]
             a2 == x2[i + 1]
             l1 == line2_from_pp(vertices(p1, a1), vertices(p1, _mod_inc(a1, nvertices(p1))))
             l2 == line2_from_pp(vertices(p2, a2), vertices(p2, _mod_inc(a2, nvertices(p2))))
             n1 == IF x1[i + 2] >= a1 THEN x1[i + 2] ELSE x1[i + 2] + nvertices(p1)
             n2 == IF x2[i + 2] >= a2 THEN x2[i + 2] ELSE x2[i + 2] + nvertices(p2)
         IN  With(rc_push(r, intersect_ll(l1, l2),
                          IF edge_flag THEN (a1 * 2) + 1 ELSE a2 * 2), LAMBDA r1 :
             With(IF edge_flag THEN rc_between(p1, 1, a1 + 1, n1, r1)
                               ELSE rc_between(p2, 0, a2 + 1, n2, r1), LAMBDA r2 :
             With2(i + 1, ~edge_flag, LAMBDA inext, fnext :
                 rc_stitch(p1, p2, x1, x2, nx, inext, fnext, r2))))

(* The flags of an operand copied vertex for vertex.                       *)
copy_flags(p, bit) == [i \in 1..nvertices(p) |-> ((i - 1) * 2) + bit]

(* Two faulty variants of rc_finish, against which the properties of the   *)
(* no-crossing branch are tested.  The first treats a sweep that recorded  *)
(* no crossing as an empty intersection; the second copies p1 without      *)
(* comparing the areas.                                                    *)
rc_finish_empty(p1, p2, s) ==
    IF s.ret = "assert" THEN Result("assert", <<>>, <<>>, s.nx, FALSE)
    ELSE IF s.ret = "hang" THEN Result("hang", <<>>, <<>>, s.nx, FALSE)
    ELSE IF s.ret = "empty" THEN Result("ok", <<>>, <<>>, s.nx, FALSE)
    ELSE IF s.nx = 0 THEN Result("ok", <<>>, <<>>, 0, TRUE)
    ELSE rc_stitch(p1, p2, Append(s.x1indices, s.x1indices[1]),
                   Append(s.x2indices, s.x2indices[1]), s.nx, 0, s.edge_flag,
                   Result("ok", <<>>, <<>>, s.nx, TRUE))

rc_finish_first(p1, p2, s) ==
    IF s.ret = "assert" THEN Result("assert", <<>>, <<>>, s.nx, FALSE)
    ELSE IF s.ret = "hang" THEN Result("hang", <<>>, <<>>, s.nx, FALSE)
    ELSE IF s.ret = "empty" THEN Result("ok", <<>>, <<>>, s.nx, FALSE)
    ELSE IF s.nx = 0 THEN Result("ok", p1, copy_flags(p1, 1), 0, TRUE)
    ELSE rc_stitch(p1, p2, Append(s.x1indices, s.x1indices[1]),
                   Append(s.x2indices, s.x2indices[1]), s.nx, 0, s.edge_flag,
                   Result("ok", <<>>, <<>>, s.nx, TRUE))

(* What the function does once the sweep has ended in the state s.         *)
rc_finish(p1, p2, s) ==
    IF s.ret = "assert" THEN Result("assert", <<>>, <<>>, s.nx, FALSE)
    ELSE IF s.ret = "hang" THEN Result("hang", <<>>, <<>>, s.nx, FALSE)
    ELSE IF s.ret = "empty" THEN Result("ok", <<>>, <<>>, s.nx, FALSE)
    ELSE IF s.nx = 0
    THEN (IF RLess(area(p2), area(p1))
          THEN Result("ok", p2, copy_flags(p2, 0), 0, TRUE)
          ELSE Result("ok", p1, copy_flags(p1, 1), 0, TRUE))
    ELSE rc_stitch(p1, p2, Append(s.x1indices, s.x1indices[1]),
                   Append(s.x2indices, s.x2indices[1]), s.nx, 0, s.edge_flag,
                   Result("ok", <<>>, <<>>, s.nx, TRUE))

intersect_rc(p1, p2) ==
    With(rc_start(p1, p2), LAMBDA s0 :
    With(rc_sweep(p1, p2, s0), LAMBDA s1 : rc_finish(p1, p2, s1)))

(* intersect(p1, p2, xflags): the default selects the rotating caliper.    *)
intersect(p1, p2) == intersect_rc(p1, p2)

---------------------------------------------------------------------------
(* intersect(AlgorithmT::SutherlandHodgeman, p1, p2, xflags).              *)

(* The flag of the crossing synthesized on the edge of pcut that starts at *)
(* a vertex of signed distance si and flag fi, while clipping against the  *)
(* edge j; and a variant that always names the clipping edge.              *)
crossing_flag_edge(si, j, fi) == j * 2

crossing_flag(si, j, fi) == IF LtNegEps(si) THEN j * 2 ELSE fi

(* The loop over the vertices of pcut for the clipping edge j: cut is      *)
(* (pcut, fcut) and cur is (pcur, fcur), each a record of a polygon and    *)
(* its flags.                                                              *)
RECURSIVE sh_clip(_, _, _, _, _)
sh_clip(edge, j, cut, i, cur) ==
    IF i >= Len(cut.poly) THEN cur
    ELSE LET inext == _mod_inc(i, Len(cut.poly))
             vi == vertices(cut.poly, i)
             vn == vertices(cut.poly, inext)
         IN  With2(distance_lp(edge, vi), distance_lp(edge, vn), LAMBDA si, sn :
             With(IF LtEps(si)
                  THEN [poly |-> Append(cur.poly, vi),
                        flags |-> Append(cur.flags, cut.flags[i + 1])]
                  ELSE cur, LAMBDA c1 :
             With2(i + 1,
                   IF LtNegEps(RMul(si, sn))
                   THEN [poly |-> Append(c1.poly,
                                         intersect_ll(edge, line2_from_pp(vi, vn))),
                         flags |-> Append(c1.flags,
                                          crossing_flag(si, j, cut.flags[i + 1]))]
                   ELSE c1,
                   LAMBDA k, c2 : sh_clip(edge, j, cut, k, c2))))

(* The loop over the edges j of p2.                                        *)
RECURSIVE sh_loop(_, _, _)
sh_loop(p2, j, cut) ==
    IF j >= nvertices(p2) THEN cut
    ELSE With(line2_from_pp(vertices(p2, j),
                            vertices(p2, _mod_inc(j, nvertices(p2)))), LAMBDA edge :
         With2(j + 1, sh_clip(edge, j, cut, 0, [poly |-> <<>>, flags |-> <<>>]),
               LAMBDA k, c : sh_loop(p2, k, c)))

intersect_sh(p1, p2) ==
    With([poly |-> p1, flags |-> copy_flags(p1, 1)], LAMBDA c0 :
    With(sh_loop(p2, 0, c0), LAMBDA r :
        Result(IF Len(r.poly) <= Capacity THEN "ok" ELSE "overflow",
               r.poly, r.flags, 0, FALSE)))

---------------------------------------------------------------------------
(* merge(p1, p2, mflags).                                                  *)

(* A faulty variant of register_p2point, which flags the vertex as one of   *)
(* the first operand.                                                      *)
register_p2point_as_p1(r, p2, i2) ==
    [r EXCEPT !.poly = Append(@, vertices(p2, i2)), !.flags = Append(@, (i2 * 2) + 1)]

(* register_p1point and register_p2point.                                  *)
register_p1point(r, p1, i1) ==
    [r EXCEPT !.poly = Append(@, vertices(p1, i1)), !.flags = Append(@, (i1 * 2) + 1)]

register_p2point(r, p2, i2) ==
    [r EXCEPT !.poly = Append(@, vertices(p2, i2)), !.flags = Append(@, i2 * 2)]

(* The choice of the operand the hull starts on.                           *)
merge_start(p1, p2) ==
    With2(_find_extreme(p1), _find_extreme(p2), LAMBDA pidx1, pidx2 :
    With2(RLess(vertices(p2, pidx2).y, vertices(p1, pidx1).y),
          _check_valid_bridge(p1, p2, pidx1, pidx2), LAMBDA flag0, br :
        LET a1 == _slope_pp(vertices(p1, pidx1), vertices(p1, _mod_inc(pidx1, nvertices(p1))))
            a2 == _slope_pp(vertices(p2, pidx2), vertices(p2, _mod_inc(pidx2, nvertices(p2))))
            br12 == _slope_pp(vertices(p1, pidx1), vertices(p2, pidx2))
            br21 == _slope_pp(vertices(p2, pidx2), vertices(p1, pidx1))
            flag1 == IF ~br.valid THEN flag0
                     ELSE IF flag0 THEN (IF AngleLess(br12, a1) THEN FALSE ELSE flag0)
                     ELSE (IF AngleLess(br21, a2) THEN TRUE ELSE flag0)
        IN  [pidx1 |-> pidx1, pidx2 |-> pidx2, edge_angle |-> MinusPi,
             edge_flag |-> flag1, ret |-> IF br.failed THEN "assert" ELSE "run",
             poly |-> <<>>, flags |-> <<>>, iters |-> 0]))

(* One turn of the sweep loop of merge; the names are those of rc_turn.    *)
merge_turn(p1, p2, s, b1, b2, onP1, angle) ==
    With2(IF onP1 /\ s.edge_flag THEN register_p1point(s, p1, s.pidx1)
          ELSE IF ~onP1 /\ ~s.edge_flag THEN register_p2point(s, p2, s.pidx2)
          ELSE s,
          _check_valid_bridge(p1, p2, b1, b2), LAMBDA s1, br :
        IF br.failed THEN [s1 EXCEPT !.ret = "assert"]
        ELSE With(IF ~br.valid THEN s1
                  ELSE [(IF s1.edge_flag THEN register_p1point(s1, p1, b1)
                                         ELSE register_p2point(s1, p2, b2))
                        EXCEPT !.edge_flag = ~s1.edge_flag], LAMBDA s2 :
            [s2 EXCEPT !.pidx1 = IF onP1 THEN _mod_inc(s.pidx1, nvertices(p1)) ELSE @,
                       !.pidx2 = IF onP1 THEN @ ELSE _mod_inc(s.pidx2, nvertices(p2)),
                       !.edge_angle = angle]))

(* The body of the sweep loop of merge entered in the state c.             *)
merge_step(p1, p2, c) ==
    With2(_mod_inc(c.pidx1, nvertices(p1)), _mod_inc(c.pidx2, nvertices(p2)),
          LAMBDA pidx1_next, pidx2_next :
    With2(_slope_pp(vertices(p1, c.pidx1), vertices(p1, pidx1_next)),
          _slope_pp(vertices(p2, c.pidx2), vertices(p2, pidx2_next)),
          LAMBDA angle1, angle2 :
        IF AngleLess(c.edge_angle, angle1)
           /\ (AngleLess(angle1, angle2) \/ AngleLess(angle2, c.edge_angle))
        THEN merge_turn(p1, p2, c, pidx1_next, c.pidx2, TRUE, angle1)
        ELSE IF AngleLess(c.edge_angle, angle2)
                /\ (AngleLess(angle2, angle1) \/ AngleLess(angle1, c.edge_angle))
        THEN merge_turn(p1, p2, c, c.pidx1, pidx2_next, FALSE, angle2)
        ELSE [c EXCEPT !.ret = "break"]))

RECURSIVE merge_sweep(_, _, _)
merge_sweep(p1, p2, s) ==
    IF s.ret # "run" THEN s
    ELSE IF s.iters >= SweepFuel THEN [s EXCEPT !.ret = "hang"]
    ELSE With(With([s EXCEPT !.iters = @ + 1], LAMBDA c : merge_step(p1, p2, c)),
              LAMBDA t : merge_sweep(p1, p2, t))

merge(p1, p2) ==
    With(merge_start(p1, p2), LAMBDA s0 :
    With(merge_sweep(p1, p2, s0), LAMBDA s :
        IF s.ret = "assert" THEN Result("assert", <<>>, <<>>, 0, FALSE)
        ELSE IF s.ret = "hang" THEN Result("hang", <<>>, <<>>, 0, FALSE)
        ELSE Result(IF Len(s.poly) <= Capacity THEN "ok" ELSE "overflow",
                    s.poly, s.flags, 0, TRUE)))

---------------------------------------------------------------------------
(* The adjoints of area, intersect and merge.  A gradient polygon is a     *)
(* Poly2: its array of MaxPoints vertices, all of them present whatever    *)
(* nvertices says, and nvertices.  An adjoint takes the accumulators as    *)
(* they are and returns them as it leaves them.                            *)

GradPoly(n, vs) == [nvertices |-> n, vertices |-> vs]

(* A variant of AddAt below that assigns where the code adds.            *)
AddAt_assign(gv, k, dx, dy) ==
    [gv EXCEPT ![k + 1] = Pt(dx, dy)]

(* grad_p.vertices[k].x += dx; grad_p.vertices[k].y += dy.                 *)
AddAt(gv, k, dx, dy) ==
    [gv EXCEPT ![k + 1] = Pt(RAdd(@.x, dx), RAdd(@.y, dy))]

(* A variant of the for loop of area_grad that leaves the loop at once.    *)
area_grad_loop_skip(p, hgrad, i, gv) == gv

(* The for loop of area_grad from vertex i on.                             *)
RECURSIVE area_grad_loop(_, _, _, _)
area_grad_loop(p, hgrad, i, gv) ==
    IF i >= nvertices(p) THEN gv
    ELSE With(AddAt(AddAt(gv, i, RNeg(RMul(hgrad, vertices(p, i - 1).y)),
                                 RMul(hgrad, vertices(p, i - 1).x)),
                    i - 1, RMul(hgrad, vertices(p, i).y),
                           RNeg(RMul(hgrad, vertices(p, i).x))), LAMBDA g1 :
              area_grad_loop(p, hgrad, i + 1, g1))

(* area_grad(p, grad, grad_p).                                             *)
area_grad(p, grad, grad_p) ==
    IF nvertices(p) <= 2 THEN grad_p
    ELSE With2(RDiv(grad, Two), nvertices(p), LAMBDA hgrad, n :
         With(AddAt(AddAt(grad_p.vertices,
                          0, RNeg(RMul(hgrad, vertices(p, n - 1).y)),
                             RMul(hgrad, vertices(p, n - 1).x)),
                    n - 1, RMul(hgrad, vertices(p, 0).y),
                           RNeg(RMul(hgrad, vertices(p, 0).x))), LAMBDA g0 :
              GradPoly(n, area_grad_loop(p, hgrad, 1, g0))))

Line2(a, b, c) == [a |-> a, b |-> b, c |-> c]

(* line2_from_pp_grad(p1, p2, grad, grad_p1, grad_p2), by way of           *)
(* line2_from_xyxy_grad: the two point accumulators as it leaves them.     *)
line2_from_pp_grad(p1, p2, grad, grad_p1, grad_p2) ==
    <<Pt(RAdd(grad_p1.x, RSub(grad.b, RMul(p2.y, grad.c))),
         RAdd(grad_p1.y, RAdd(RNeg(grad.a), RMul(p2.x, grad.c)))),
      Pt(RAdd(grad_p2.x, RAdd(RNeg(grad.b), RMul(p1.y, grad.c))),
         RAdd(grad_p2.y, RSub(grad.a, RMul(p1.x, grad.c))))>>

(* intersect_grad(Line2, Line2, grad, grad_l1, grad_l2).                   *)
intersect_grad_ll(l1, l2, grad, grad_l1, grad_l2) ==
    With(RSub(RMul(l1.a, l2.b), RMul(l2.a, l1.b)), LAMBDA wab :
    With2(RSub(RMul(l1.b, l2.c), RMul(l2.b, l1.c)),
          RSub(RMul(l1.c, l2.a), RMul(l2.c, l1.a)), LAMBDA wbc, wca :
    With2(RDiv(grad.x, wab), RDiv(grad.y, wab), LAMBDA g_wbc, g_wca :
    With(RDiv(RNeg(RAdd(RMul(wbc, g_wbc), RMul(wca, g_wca))), wab), LAMBDA g_wab :
        <<Line2(RAdd(grad_l1.a, RAdd(RNeg(RMul(l2.c, g_wca)), RMul(l2.b, g_wab))),
                RAdd(grad_l1.b, RSub(RMul(l2.c, g_wbc), RMul(l2.a, g_wab))),
                RAdd(grad_l1.c, RSub(RMul(l2.a, g_wca), RMul(l2.b, g_wbc)))),
          Line2(RAdd(grad_l2.a, RSub(RMul(l1.c, g_wca), RMul(l1.b, g_wab))),
                RAdd(grad_l2.b, RAdd(RNeg(RMul(l1.c, g_wbc)), RMul(l1.a, g_wab))),
                RAdd(grad_l2.c, RSub(RMul(l1.b, g_wbc), RMul(l1.a, g_wca))))>>))))

(* One vertex of the upstream gradient defined by an edge pn of the polygon *)
(* pnext (accumulators gn) and an edge of pprev (accumulators gp): the two  *)
(* accumulator arrays as the else branch of intersect_grad leaves them.     *)
intersect_grad_cross(pnext, pprev, epni, eppi, gradv, gn, gp) ==
    With2(_mod_inc(epni, nvertices(pnext)), _mod_inc(eppi, nvertices(pprev)),
          LAMBDA epnj, eppj :
    With(intersect_grad_ll(line2_from_pp(vertices(pnext, epni), vertices(pnext, epnj)),
                           line2_from_pp(vertices(pprev, eppi), vertices(pprev, eppj)),
                           gradv, Line2(Zero, Zero, Zero), Line2(Zero, Zero, Zero)),
         LAMBDA ge :
    With2(line2_from_pp_grad(vertices(pnext, epni), vertices(pnext, epnj), ge[1],
                             gn[epni + 1], gn[epnj + 1]),
          line2_from_pp_grad(vertices(pprev, eppi), vertices(pprev, eppj), ge[2],
                             gp[eppi + 1], gp[eppj + 1]), LAMBDA rn, rp :
        <<[gn EXCEPT ![epni + 1] = rn[1], ![epnj + 1] = rn[2]],
          [gp EXCEPT ![eppi + 1] = rp[1], ![eppj + 1] = rp[2]]>>)))

(* The for loop of intersect_grad(Poly2, Poly2, ...) from vertex i on; g1  *)
(* and g2 are the vertex arrays of grad_p1 and grad_p2.                    *)
RECURSIVE intersect_grad_loop(_, _, _, _, _, _, _)
intersect_grad_loop(p1, p2, grad, xflags, i, g1, g2) ==
    IF i >= nvertices(grad) THEN <<g1, g2>>
    ELSE With2(xflags[i + 1], xflags[_mod_dec(i, nvertices(grad)) + 1], LAMBDA f, fprev :
         With(IF (f % 2) = (fprev % 2)
              THEN (IF f % 2 = 1
                    THEN <<AddAt(g1, f \div 2, vertices(grad, i).x, vertices(grad, i).y), g2>>
                    ELSE <<g1, AddAt(g2, f \div 2, vertices(grad, i).x, vertices(grad, i).y)>>)
              ELSE IF f % 2 = 1
              THEN intersect_grad_cross(p1, p2, f \div 2, fprev \div 2,
                                        vertices(grad, i), g1, g2)
              ELSE With(intersect_grad_cross(p2, p1, f \div 2, fprev \div 2,
                                             vertices(grad, i), g2, g1),
                        LAMBDA r : <<r[2], r[1]>>),
              LAMBDA g : intersect_grad_loop(p1, p2, grad, xflags, i + 1, g[1], g[2])))

(* intersect_grad(p1, p2, grad, xflags, grad_p1, grad_p2).                 *)
intersect_grad(p1, p2, grad, xflags, grad_p1, grad_p2) ==
    With(intersect_grad_loop(p1, p2, grad, xflags, 0,
                             grad_p1.vertices, grad_p2.vertices), LAMBDA g :
        [grad_p1 |-> GradPoly(nvertices(p1), g[1]),
         grad_p2 |-> GradPoly(nvertices(p2), g[2])])

(* The for loop of merge_grad from vertex i on.                            *)
RECURSIVE merge_grad_loop(_, _, _, _, _)
merge_grad_loop(grad, mflags, i, g1, g2) ==
    IF i >= nvertices(grad) THEN <<g1, g2>>
    ELSE With(mflags[i + 1], LAMBDA f :
         IF f % 2 = 1
         THEN merge_grad_loop(grad, mflags, i + 1,
                  AddAt(g1, f \div 2, vertices(grad, i).x, vertices(grad, i).y), g2)
         ELSE merge_grad_loop(grad, mflags, i + 1, g1,
                  AddAt(g2, f \div 2, vertices(grad, i).x, vertices(grad, i).y)))

(* merge_grad(p1, p2, grad, mflags, grad_p1, grad_p2).                     *)
merge_grad(p1, p2, grad, mflags, grad_p1, grad_p2) ==
    With(merge_grad_loop(grad, mflags, 0, grad_p1.vertices, grad_p2.vertices),
         LAMBDA g :
        [grad_p1 |-> GradPoly(nvertices(p1), g[1]),
         grad_p2 |-> GradPoly(nvertices(p2), g[2])])

---------------------------------------------------------------------------
(* distance(Line2, Point2) and its adjoint.  hypot is exact here: it is    *)
(* applied to lines whose a*a + b*b is the square of a rational.           *)

Root(n) == CHOOSE r \in 0..n : r * r = n

hypot(a, b) ==
    With(RAdd(RMul(a, a), RMul(b, b)), LAMBDA s : <<Root(s[1]), Root(s[2])>>)

(* distance(Line2, Point2).                                                *)
distance_line(l, p) == RDiv(distance_lp(l, p), hypot(l.a, l.b))

(* distance_grad(Line2, Point2, grad, grad_l, grad_p): the accumulators as *)
(* the call leaves them.                                                   *)
distance_grad_line(l, p, grad, grad_l, grad_p) ==
    With(hypot(l.a, l.b), LAMBDA hab :
    With(RMul(RMul(hab, hab), hab), LAMBDA hab3 :
        [grad_p |-> Pt(RAdd(grad_p.x, RDiv(RMul(grad, l.a), hab)),
                       RAdd(grad_p.y, RDiv(RMul(grad, l.b), hab))),
         grad_l |-> Line2(
             RAdd(grad_l.a, RDiv(RMul(RMul(RMul(grad, l.a), p.y), p.y), hab3)),
             RAdd(grad_l.b, RDiv(RMul(RMul(RMul(grad, l.b), p.x), p.x), hab3)),
             RAdd(grad_l.c, RDiv(RMul(grad, One), hab)))]))

---------------------------------------------------------------------------
(* Signed distances.  The code returns hypot values, which are square      *)
(* roots; a signed distance is kept as its sign sg (1, 0 or -1) and the    *)
(* square sq of its magnitude, so that abs(d) < abs(e) is sq(d) < sq(e).   *)
(* Two magnitudes that are equal irrational numbers are equal here; the    *)
(* code's doubles may round them apart, in either order.                   *)

Signed(sg, sq) == [sg |-> IF sq = Zero THEN 0 ELSE sg, sq |-> sq]

SNeg(d) == [sg |-> -d.sg, sq |-> d.sq]

segment2_from_pp(a, b) == [x1 |-> a.x, y1 |-> a.y, x2 |-> b.x, y2 |-> b.y]

line2_from_segment2(s) == line2_from_pp(Pt(s.x1, s.y1), Pt(s.x2, s.y2))

t_from_pxy(l, x, y) ==
    IF l.b = Zero THEN RDiv(RSub(One, y), l.a)
    ELSE IF l.a = Zero THEN RDiv(RSub(x, One), l.b)
    ELSE RDiv(RSub(RSub(RSub(RMul(l.b, x), RMul(l.a, y)),
                        RDiv(RMul(l.a, RAdd(l.a, l.c)), l.b)), l.b),
              RAdd(RMul(l.a, l.a), RMul(l.b, l.b)))

(* distance(Segment2, Point2).                                             *)
distance_sp(s, p) ==
    With(line2_from_segment2(s), LAMBDA l :
    With2(t_from_pxy(l, p.x, p.y), distance_lp(l, p), LAMBDA t, sign :
        IF RLess(t, t_from_pxy(l, s.x2, s.y2))
        THEN Signed(IF RLess(Zero, sign) THEN 1 ELSE -1,
                    distance2_pp(p, Pt(s.x2, s.y2)))
        ELSE IF RLess(t_from_pxy(l, s.x1, s.y1), t)
        THEN Signed(IF RLess(Zero, sign) THEN 1 ELSE -1,
                    distance2_pp(p, Pt(s.x1, s.y1)))
        ELSE Signed(RSign(sign),
                    RDiv(RMul(sign, sign), RAdd(RMul(l.a, l.a), RMul(l.b, l.b))))))

(* The for loop of distance(Poly2, Point2, idx) from edge i on.            *)
RECURSIVE distance_loop(_, _, _, _)
distance_loop(poly, p, i, s) ==
    IF i >= nvertices(poly) THEN s
    ELSE With(SNeg(distance_sp(segment2_from_pp(vertices(poly, i - 1),
                                                vertices(poly, i)), p)), LAMBDA dl :
         With(IF RLess(dl.sq, s.dmin.sq) THEN [dmin |-> dl, idx |-> i - 1] ELSE s,
              LAMBDA s1 : distance_loop(poly, p, i + 1, s1)))

(* distance(Poly2, Point2, idx).                                           *)
distance_polyp(poly, p) ==
    distance_loop(poly, p, 1,
        [dmin |-> SNeg(distance_sp(segment2_from_pp(
                           vertices(poly, nvertices(poly) - 1),
                           vertices(poly, 0)), p)),
         idx |-> nvertices(poly) - 1])

---------------------------------------------------------------------------
(* dimension(p, flag1, flag2), centroid(p) and the composite metrics.      *)

(* A variant of the while loop below that never advances v.              *)
dim_advance_stay(p, u, unext, v, vnext, fuel) ==
    [v |-> v, vnext |-> vnext, hang |-> FALSE]

(* The while loop of dimension advancing v; hang marks a run longer than   *)
(* WalkFuel steps.  Each pass of the loop sets v to vnext and vnext to     *)
(* _mod_inc(vnext, n), so that before pass k + 1 vnext is k increments     *)
(* ahead of where it started and, once k > 0, v is one behind it; the loop *)
(* ends before the first pass whose condition is false.                    *)
dim_pass(p, v, vnext, k, hang) ==
    [v |-> IF k = 0 THEN v ELSE (vnext + k - 1) % nvertices(p),
     vnext |-> (vnext + k) % nvertices(p),
     hang |-> hang]

dim_continues(p, u, unext, at) ==
    RLeq(_cross(vertices(p, u), vertices(p, unext), vertices(p, at.v)),
         _cross(vertices(p, u), vertices(p, unext), vertices(p, at.vnext)))

dim_advance(p, u, unext, v, vnext, fuel) ==
    With({k \in 0..fuel :
             ~dim_continues(p, u, unext, dim_pass(p, v, vnext, k, FALSE))},
         LAMBDA ends :
        IF ends = {}
        THEN dim_pass(p, v, vnext, fuel, TRUE)
        ELSE dim_pass(p, v, vnext, CHOOSE k \in ends : \A j \in ends : k <= j, FALSE))

(* The body of the for loop of dimension for the vertex u, entered in the  *)
(* state s.                                                                *)
dim_step(p, u, s) ==
    With(_mod_inc(u, nvertices(p)), LAMBDA unext :
    With(dim_advance(p, u, unext, s.v, s.vnext, WalkFuel), LAMBDA w :
        IF w.hang THEN [s EXCEPT !.hang = TRUE]
        ELSE
        With(distance2_pp(vertices(p, u), vertices(p, w.v)), LAMBDA d1 :
        With(IF RLess(s.dmax, d1)
             THEN [s EXCEPT !.dmax = d1, !.flag1 = u, !.flag2 = w.v]
             ELSE s, LAMBDA s1 :
        With(distance2_pp(vertices(p, unext), vertices(p, w.v)), LAMBDA d2 :
            IF RLess(s1.dmax, d2)
            THEN [s1 EXCEPT !.dmax = d2, !.flag1 = unext, !.flag2 = w.v,
                            !.v = w.v, !.vnext = w.vnext]
            ELSE [s1 EXCEPT !.v = w.v, !.vnext = w.vnext])))))

(* The for loop of dimension over u.  dmax is kept squared; flag1 and      *)
(* flag2 are -1 while the code has not assigned them.                      *)
RECURSIVE dim_loop(_, _, _)
dim_loop(p, u, s) ==
    IF u >= nvertices(p) \/ s.hang THEN s
    ELSE With2(u + 1, dim_step(p, u, s), LAMBDA k, s2 : dim_loop(p, k, s2))

(* dimension: dmax is the square of the value returned.                    *)
dimension(p) ==
    With(p, LAMBDA q :
        IF nvertices(q) <= 1
        THEN [dmax |-> Zero, flag1 |-> -1, flag2 |-> -1, hang |-> FALSE]
        ELSE IF nvertices(q) = 2
        THEN [dmax |-> distance2_pp(vertices(q, 0), vertices(q, 1)),
              flag1 |-> 0, flag2 |-> 1, hang |-> FALSE]
        ELSE With(dim_loop(q, 0, [v |-> 1, vnext |-> 2, dmax |-> Zero,
                                  flag1 |-> -1, flag2 |-> -1, hang |-> FALSE]),
                  LAMBDA s : [dmax |-> s.dmax, flag1 |-> s.flag1,
                              flag2 |-> s.flag2, hang |-> s.hang]))

RECURSIVE coord_sum(_, _)
coord_sum(p, i) ==
    IF i >= nvertices(p) THEN Pt(Zero, Zero)
    ELSE With(coord_sum(p, i + 1), LAMBDA r :
              Pt(RAdd(vertices(p, i).x, r.x), RAdd(vertices(p, i).y, r.y)))

centroid(p) ==
    With(coord_sum(p, 0), LAMBDA r :
         Pt(RDiv(r.x, Q(nvertices(p))), RDiv(r.y, Q(nvertices(p)))))

(* The value of a metric: ret as in Result, value the scalar returned, nx  *)
(* and nm the vertex counts reported, dflag1 and dflag2 diou's flags (-1   *)
(* when read from an entry that was never written).                        *)
Metric(ret, value, nx, nm, dflag1, dflag2) ==
    [ret |-> ret, value |-> value, nx |-> nx, nm |-> nm,
     dflag1 |-> dflag1, dflag2 |-> dflag2]

iou(p1, p2) ==
    With(intersect(p1, p2), LAMBDA pi :
        IF pi.ret # "ok" THEN Metric(pi.ret, NaN, 0, 0, -1, -1)
        ELSE With(area(pi.poly), LAMBDA area_i :
             With(RSub(RAdd(area(p1), area(p2)), area_i), LAMBDA area_u :
                  Metric("ok", RDiv(area_i, area_u), Len(pi.poly), 0, -1, -1))))

giou(p1, p2) ==
    With(intersect(p1, p2), LAMBDA pi :
        IF pi.ret # "ok" THEN Metric(pi.ret, NaN, 0, 0, -1, -1)
        ELSE With(merge(p1, p2), LAMBDA pm :
            IF pm.ret # "ok" THEN Metric(pm.ret, NaN, 0, 0, -1, -1)
            ELSE With2(area(pi.poly), area(pm.poly), LAMBDA area_i, area_m :
                 With(RSub(RAdd(area(p1), area(p2)), area_i), LAMBDA area_u :
                      Metric("ok",
                             RSub(RAdd(RDiv(area_i, area_u), RDiv(area_u, area_m)), One),
                             Len(pi.poly), Len(pm.poly), -1, -1)))))

flag_at(flags, idx) == IF idx >= 0 /\ idx < Len(flags) THEN flags[idx + 1] ELSE -1

diou(p1, p2) ==
    With(iou(p1, p2), LAMBDA piou :
        IF piou.ret # "ok" THEN piou
        ELSE With(merge(p1, p2), LAMBDA pm :
            IF pm.ret # "ok" THEN Metric(pm.ret, NaN, 0, 0, -1, -1)
            ELSE With(dimension(pm.poly), LAMBDA dm :
                IF dm.hang THEN Metric("hang", NaN, 0, 0, -1, -1)
                ELSE With(distance2_pp(centroid(p1), centroid(p2)), LAMBDA cd2 :
                     Metric("ok", RSub(piou.value, RDiv(cd2, dm.dmax)), piou.nx, 0,
                            flag_at(pm.flags, dm.flag1), flag_at(pm.flags, dm.flag2))))))

---------------------------------------------------------------------------
(* The reconstruction of a result from its provenance flags.               *)

(* The edge of p that starts at the vertex i, as line2_from_pp builds it.  *)
edge_line(p, i) ==
    line2_from_pp(vertices(p, i), vertices(p, _mod_inc(i, nvertices(p))))

(* The body of the loop of _construct_intersection for the output vertex   *)
(* i; xflags is the sequence of the flags, entry i at position i + 1.      *)
construct_vertex(p1, p2, xflags, nx, i) ==
    With2(xflags[i + 1], xflags[_mod_dec(i, nx) + 1], LAMBDA f, fprev :
        IF (f % 2) = (fprev % 2)
        THEN (IF f % 2 = 1 THEN vertices(p1, f \div 2)
                           ELSE vertices(p2, f \div 2))
        ELSE IF f % 2 = 1
        THEN intersect_ll(edge_line(p2, fprev \div 2), edge_line(p1, f \div 2))
        ELSE intersect_ll(edge_line(p1, fprev \div 2), edge_line(p2, f \div 2)))

_construct_intersection(p1, p2, xflags, nx) ==
    [i \in 1..nx |-> construct_vertex(p1, p2, xflags, nx, i - 1)]

_construct_merged_hull(p1, p2, mflags, nm) ==
    [i \in 1..nm |-> IF mflags[i] % 2 = 1 THEN vertices(p1, mflags[i] \div 2)
                                          ELSE vertices(p2, mflags[i] \div 2)]

---------------------------------------------------------------------------
(* The adjoints of iou and giou.                                           *)

(* A local Poly2 of the capacity of a result after zero(): nvertices is 0  *)
(* from its declaration.                                                   *)
ZeroWide == GradPoly(0, [k \in 1..Capacity |-> Pt(Zero, Zero)])

(* The vertices 0..nvertices-1 of a gradient polygon, which are those an   *)
(* adjoint reads when the polygon is its upstream gradient.                *)
UpstreamOf(g) == SubSeq(g.vertices, 1, g.nvertices)

(* The scalars gi and gu of iou_grad.                                      *)
iou_grad_terms(grad, area_i, area_u) ==
    With(RDiv(grad, area_u), LAMBDA gi :
    With(RDiv(RMul(RNeg(gi), area_i), area_u), LAMBDA gu :
         [gi |-> RSub(gi, gu), gu |-> gu]))

(* A variant of giou_grad_terms below without the statement gi -= gu.      *)
giou_grad_terms_keep(grad, area_i, area_u, area_m) ==
    [gi |-> RDiv(grad, area_u),
     gu |-> RMul(grad, RSub(RRecip(area_m), RDiv(area_i, RMul(area_u, area_u)))),
     gm |-> RMul(grad, RDiv(RNeg(area_u), RMul(area_m, area_m)))]

(* The scalars gi, gu and gm of giou_grad.                                 *)
giou_grad_terms(grad, area_i, area_u, area_m) ==
    With(RMul(grad, RSub(RDiv(One, area_m), RDiv(area_i, RMul(area_u, area_u)))),
         LAMBDA gu :
         [gi |-> RSub(RDiv(grad, area_u), gu),
          gu |-> gu,
          gm |-> RMul(grad, RDiv(RNeg(area_u), RMul(area_m, area_m)))])

(* iou_grad(p1, p2, grad, nx, xflags, grad_p1, grad_p2).                   *)
iou_grad(p1, p2, grad, nx, xflags, grad_p1, grad_p2) ==
    With(_construct_intersection(p1, p2, xflags, nx), LAMBDA pi :
    With(area(pi), LAMBDA area_i :
    With(RSub(RAdd(area(p1), area(p2)), area_i), LAMBDA area_u :
    With(iou_grad_terms(grad, area_i, area_u), LAMBDA t :
    With(area_grad(pi, t.gi, ZeroWide), LAMBDA grad_pi :
        intersect_grad(p1, p2, UpstreamOf(grad_pi), xflags,
                       area_grad(p1, t.gu, grad_p1),
                       area_grad(p2, t.gu, grad_p2)))))))

(* giou_grad(p1, p2, grad, nx, nm, xflags, mflags, grad_p1, grad_p2).      *)
giou_grad(p1, p2, grad, nx, nm, xflags, mflags, grad_p1, grad_p2) ==
    With2(_construct_intersection(p1, p2, xflags, nx),
          _construct_merged_hull(p1, p2, mflags, nm), LAMBDA pi, pm :
    With2(area(pi), area(pm), LAMBDA area_i, area_m :
    With(RSub(RAdd(area(p1), area(p2)), area_i), LAMBDA area_u :
    With(giou_grad_terms(grad, area_i, area_u, area_m), LAMBDA t :
    With2(area_grad(pi, t.gi, ZeroWide), area_grad(pm, t.gm, ZeroWide),
          LAMBDA grad_pi, grad_pm :
    With(intersect_grad(p1, p2, UpstreamOf(grad_pi), xflags,
                        area_grad(p1, t.gu, grad_p1),
                        area_grad(p2, t.gu, grad_p2)), LAMBDA a :
        merge_grad(p1, p2, UpstreamOf(grad_pm), mflags, a.grad_p1, a.grad_p2)))))))

---------------------------------------------------------------------------
(* The operands.  A caller builds two convex counter-clockwise polygons    *)
(* and passes them to one of the entry points.  The polygons are the       *)
(* lattice triangles and the axis-aligned lattice boxes with coordinates   *)
(* in 0..Grid, listed from their lowest (then leftmost) vertex as          *)
(* poly2_from_aabox2 lists a box, and the unit square shifted by half a    *)
(* unit along x.                                                           *)

Lattice == {IPt(i, j) : i \in 0..Grid, j \in 0..Grid}

(* The vertex a comes before b in the order "lower, then further left".    *)
LowerLeft(a, b) == RLess(a.y, b.y) \/ (a.y = b.y /\ RLess(a.x, b.x))

AABox(min_x, max_x, min_y, max_y) ==
    [min_x |-> min_x, max_x |-> max_x, min_y |-> min_y, max_y |-> max_y]

poly2_from_aabox2(a) ==
    <<Pt(a.min_x, a.min_y), Pt(a.max_x, a.min_y),
      Pt(a.max_x, a.max_y), Pt(a.min_x, a.max_y)>>

(* _max and _min, and a variant of _max that returns its first argument.   *)
_max_first(a, b) == a

_max(a, b) == IF RLess(b, a) THEN a ELSE b

_min(a, b) == IF RLess(a, b) THEN a ELSE b

(* The loop of aabox2_from_poly2 from the vertex i on, r the box so far.   *)
RECURSIVE aabox2_loop(_, _, _)
aabox2_loop(p, i, r) ==
    IF i >= nvertices(p) THEN r
    ELSE With(AABox(_min(vertices(p, i).x, r.min_x), _max(vertices(p, i).x, r.max_x),
                    _min(vertices(p, i).y, r.min_y), _max(vertices(p, i).y, r.max_y)),
              LAMBDA r1 : aabox2_loop(p, i + 1, r1))

aabox2_from_poly2(p) ==
    aabox2_loop(p, 1, AABox(vertices(p, 0).x, vertices(p, 0).x,
                            vertices(p, 0).y, vertices(p, 0).y))

(* area, intersect and iou of axis-aligned boxes.                          *)
area_aabox2(a) == RMul(RSub(a.max_x, a.min_x), RSub(a.max_y, a.min_y))

intersect_aabox2(a1, a2) ==
    IF RLeq(a1.max_x, a2.min_x) \/ RLeq(a2.max_x, a1.min_x)
       \/ RLeq(a1.max_y, a2.min_y) \/ RLeq(a2.max_y, a1.min_y)
    THEN AABox(Zero, Zero, Zero, Zero)
    ELSE AABox(_max(a1.min_x, a2.min_x), _min(a1.max_x, a2.max_x),
               _max(a1.min_y, a2.min_y), _min(a1.max_y, a2.max_y))

iou_aabox2(a1, a2) ==
    With(area_aabox2(intersect_aabox2(a1, a2)), LAMBDA area_i :
    With(RSub(RAdd(area_aabox2(a1), area_aabox2(a2)), area_i), LAMBDA area_u :
         RDiv(area_i, area_u)))

UnitSquare == poly2_from_aabox2(AABox(Zero, One, Zero, One))

ShiftedSquare == poly2_from_aabox2(AABox(Norm(1, 2), Norm(3, 2), Zero, One))

LatticeBoxes ==
    {poly2_from_aabox2(AABox(Q(l), Q(r), Q(b), Q(t))) :
        <<l, r, b, t>> \in {q \in (0..Grid) \X (0..Grid) \X (0..Grid) \X (0..Grid) :
                               q[1] < q[2] /\ q[3] < q[4]}}

LatticeTriangles ==
    {t \in {<<a, b, c>> : <<a, b, c>> \in Lattice \X Lattice \X Lattice} :
        /\ RLess(Zero, _cross(t[1], t[2], t[3]))
        /\ LowerLeft(t[1], t[2]) /\ LowerLeft(t[1], t[3])}

Polygons == LatticeTriangles \cup LatticeBoxes \cup {ShiftedSquare}

---------------------------------------------------------------------------
(* The state: the two operands, the entry point that was called ("idle"    *)
(* before the call) and what it returned: result for the entry points that *)
(* return a polygon, metric for those that return a number.  fn is the     *)
(* helper or adjoint function called besides ("none" before the call), arg *)
(* the arguments it was given other than the operands, and out what it     *)
(* returned or left in its output parameters.                              *)

VARIABLES p1, p2, op, result, metric, fn, arg, out

vars == <<p1, p2, op, result, metric, fn, arg, out>>

NoResult == Result("none", <<>>, <<>>, 0, FALSE)

NoMetric == Metric("none", NaN, 0, 0, -1, -1)

Init ==
    /\ p1 \in Polygons
    /\ p2 \in Polygons
    /\ op = "idle"
    /\ result = NoResult
    /\ metric = NoMetric
    /\ fn = "none"
    /\ arg = <<>>
    /\ out = <<>>

(* intersect(p1, p2, xflags), the default algorithm.                       *)
CallIntersect ==
    /\ op = "idle"
    /\ op' = "intersect"
    /\ result' = intersect(p1, p2)
    /\ UNCHANGED <<p1, p2, metric, fn, arg, out>>

(* intersect(AlgorithmT::SutherlandHodgeman(), p1, p2, xflags).            *)
CallIntersectSH ==
    /\ op = "idle"
    /\ op' = "intersect_sh"
    /\ result' = intersect_sh(p1, p2)
    /\ UNCHANGED <<p1, p2, metric, fn, arg, out>>

(* merge(p1, p2, mflags).                                                  *)
CallMerge ==
    /\ op = "idle"
    /\ op' = "merge"
    /\ result' = merge(p1, p2)
    /\ UNCHANGED <<p1, p2, metric, fn, arg, out>>

(* iou(p1, p2, nx, xflags).                                                *)
CallIou ==
    /\ op = "idle"
    /\ op' = "iou"
    /\ metric' = iou(p1, p2)
    /\ UNCHANGED <<p1, p2, result, fn, arg, out>>

(* giou(p1, p2, nx, nm, xflags, mflags).                                   *)
CallGiou ==
    /\ op = "idle"
    /\ op' = "giou"
    /\ metric' = giou(p1, p2)
    /\ UNCHANGED <<p1, p2, result, fn, arg, out>>

(* diou(p1, p2, nx, dflag1, dflag2, xflags).                               *)
CallDiou ==
    /\ op = "idle"
    /\ op' = "diou"
    /\ metric' = diou(p1, p2)
    /\ UNCHANGED <<p1, p2, result, fn, arg, out>>

(* _construct_intersection(p1, p2, xflags, nx), called as the adjoints     *)
(* call it: with the flags and the vertex count an intersect call left.    *)
CallConstructIntersection ==
    /\ op \in {"intersect", "intersect_sh"}
    /\ result.ret = "ok"
    /\ fn = "none"
    /\ fn' = "_construct_intersection"
    /\ arg' = [xflags |-> result.flags, nx |-> nvertices(result.poly)]
    /\ out' = _construct_intersection(p1, p2, result.flags, nvertices(result.poly))
    /\ UNCHANGED <<p1, p2, op, result, metric>>

(* _construct_merged_hull(p1, p2, mflags, nm), with the flags and the      *)
(* vertex count a merge call left.                                         *)
CallConstructMergedHull ==
    /\ op = "merge"
    /\ result.ret = "ok"
    /\ fn = "none"
    /\ fn' = "_construct_merged_hull"
    /\ arg' = [mflags |-> result.flags, nm |-> nvertices(result.poly)]
    /\ out' = _construct_merged_hull(p1, p2, result.flags, nvertices(result.poly))
    /\ UNCHANGED <<p1, p2, op, result, metric>>

Next ==
    \/ CallIntersect
    \/ CallIntersectSH
    \/ CallMerge
    \/ CallIou
    \/ CallGiou
    \/ CallDiou
    \/ CallConstructIntersection
    \/ CallConstructMergedHull

Spec == Init /\ [][Next]_vars

---------------------------------------------------------------------------
(* The helper _check_valid_bridge on its own: a caller passes the operands *)
(* and any pair of vertex indices.                                         *)

CallCheckValidBridge ==
    /\ op = "idle"
    /\ fn = "none"
    /\ \E idx1 \in 0..(nvertices(p1) - 1), idx2 \in 0..(nvertices(p2) - 1) :
           /\ fn' = "_check_valid_bridge"
           /\ arg' = [idx1 |-> idx1, idx2 |-> idx2]
           /\ out' = _check_valid_bridge(p1, p2, idx1, idx2)
    /\ UNCHANGED <<p1, p2, op, result, metric>>

NextBridge == CallCheckValidBridge

SpecBridge == Init /\ [][NextBridge]_vars

---------------------------------------------------------------------------
(* The adjoints called on the operands.  The caller owns the accumulators  *)
(* grad_p1 and grad_p2: it hands them to an adjoint as the previous call   *)
(* left them, or, for the first call, zeroed or holding earlier gradients. *)
(* arg records the accumulators before the first call and, for each call,  *)
(* the adjoint called and the upstream gradient it was given; out holds    *)
(* the accumulators as the last call left them.                            *)

ZeroGrad == GradPoly(0, [k \in 1..MaxPoints |-> Pt(Zero, Zero)])

RampGrad == GradPoly(0, [k \in 1..MaxPoints |-> Pt(Q(k), Norm(-k, 2))])

ZeroAcc == [grad_p1 |-> ZeroGrad, grad_p2 |-> ZeroGrad]

Accumulators == {ZeroAcc, [grad_p1 |-> RampGrad, grad_p2 |-> RampGrad]}

(* Upstream gradients: of a number, and of the n vertices of a polygon.    *)
Grads == {One, Q(-2)}

Upstream(n) == {[k \in 1..n |-> Pt(Q(k), Q(1 - 2 * k))]}

(* The operands of a backward pass: any polygon and a box.                 *)
InitGrad ==
    /\ p1 \in Polygons
    /\ p2 \in LatticeBoxes \cup {ShiftedSquare}
    /\ op = "idle"
    /\ result = NoResult
    /\ metric = NoMetric
    /\ fn = "none"
    /\ arg = <<>>
    /\ out = <<>>

Recorded(A, f, g) ==
    IF fn = "none" THEN [start |-> A, calls |-> <<[fn |-> f, grad |-> g]>>]
    ELSE [arg EXCEPT !.calls = Append(@, [fn |-> f, grad |-> g])]

(* area_grad(p1, grad, grad_p1), the first adjoint of a backward pass.     *)
CallAreaGrad ==
    /\ fn = "none"
    /\ \E g \in Grads, A \in Accumulators :
           /\ fn' = "area_grad"
           /\ arg' = Recorded(A, "area_grad", g)
           /\ out' = [A EXCEPT !.grad_p1 = area_grad(p1, g, A.grad_p1)]
    /\ UNCHANGED <<p1, p2, op, result, metric>>

(* intersect_grad(p1, p2, grad, xflags, grad_p1, grad_p2) with the flags   *)
(* an intersect call left and a gradient for each vertex it returned.      *)
CallIntersectGrad ==
    /\ op = "intersect"
    /\ result.ret = "ok"
    /\ fn \in {"none", "area_grad"}
    /\ \E grad \in Upstream(nvertices(result.poly)),
          A \in (IF fn = "none" THEN Accumulators ELSE {out}) :
           /\ fn' = "intersect_grad"
           /\ arg' = Recorded(A, "intersect_grad", grad)
           /\ out' = intersect_grad(p1, p2, grad, result.flags, A.grad_p1, A.grad_p2)
    /\ UNCHANGED <<p1, p2, op, result, metric>>

(* merge_grad(p1, p2, grad, mflags, grad_p1, grad_p2) with the flags a     *)
(* merge call left.                                                        *)
CallMergeGrad ==
    /\ op = "merge"
    /\ result.ret = "ok"
    /\ fn \in {"none", "area_grad"}
    /\ \E grad \in Upstream(nvertices(result.poly)),
          A \in (IF fn = "none" THEN Accumulators ELSE {out}) :
           /\ fn' = "merge_grad"
           /\ arg' = Recorded(A, "merge_grad", grad)
           /\ out' = merge_grad(p1, p2, grad, result.flags, A.grad_p1, A.grad_p2)
    /\ UNCHANGED <<p1, p2, op, result, metric>>

NextGrad ==
    \/ CallIntersect
    \/ CallMerge
    \/ CallAreaGrad
    \/ CallIntersectGrad
    \/ CallMergeGrad

SpecGrad == InitGrad /\ [][NextGrad]_vars

---------------------------------------------------------------------------
(* The backward pass of a composite metric: iou or giou is called, then    *)
(* its adjoint with the vertex counts and the flags the call left, an      *)
(* upstream gradient, and accumulators that are zeroed or hold earlier     *)
(* gradients.                                                              *)

(* iou_grad(p1, p2, grad, nx, xflags, grad_p1, grad_p2).                   *)
CallIouGrad ==
    /\ op = "iou"
    /\ metric.ret = "ok"
    /\ fn = "none"
    /\ \E g \in Grads, A \in Accumulators :
           /\ fn' = "iou_grad"
           /\ arg' = [start |-> A, grad |-> g, xflags |-> intersect(p1, p2).flags]
           /\ out' = iou_grad(p1, p2, g, metric.nx, intersect(p1, p2).flags,
                              A.grad_p1, A.grad_p2)
    /\ UNCHANGED <<p1, p2, op, result, metric>>

(* giou_grad(p1, p2, grad, nx, nm, xflags, mflags, grad_p1, grad_p2).      *)
CallGiouGrad ==
    /\ op = "giou"
    /\ metric.ret = "ok"
    /\ fn = "none"
    /\ \E g \in Grads, A \in Accumulators :
           /\ fn' = "giou_grad"
           /\ arg' = [start |-> A, grad |-> g, xflags |-> intersect(p1, p2).flags,
                      mflags |-> merge(p1, p2).flags]
           /\ out' = giou_grad(p1, p2, g, metric.nx, metric.nm,
                               intersect(p1, p2).flags, merge(p1, p2).flags,
                               A.grad_p1, A.grad_p2)
    /\ UNCHANGED <<p1, p2, op, result, metric>>

NextMetricGrad ==
    \/ CallIou
    \/ CallGiou
    \/ CallIouGrad
    \/ CallGiouGrad

SpecMetricGrad == InitGrad /\ [][NextMetricGrad]_vars

---------------------------------------------------------------------------
(* The same operands listed from another vertex.  A caller calls intersect *)
(* or merge on p1 and p2, and calls the same function on a listing of the  *)
(* same two polygons in which one of them starts at another vertex; arg    *)
(* holds the operands of the second call and out what it returned.         *)

(* The polygon P listed from its vertex k.                                 *)
Rotate(P, k) == [i \in 1..Len(P) |-> P[((i - 1 + k) % Len(P)) + 1]]

Relistings ==
    {[q1 |-> Rotate(p1, k), q2 |-> p2] : k \in 1..(Len(p1) - 1)}
        \cup {[q1 |-> p1, q2 |-> Rotate(p2, k)] : k \in 1..(Len(p2) - 1)}

CallIntersectRelisted ==
    /\ fn = "none"
    /\ \E q \in Relistings :
           /\ fn' = "intersect"
           /\ arg' = q
           /\ out' = intersect(q.q1, q.q2)
    /\ UNCHANGED <<p1, p2, op, result, metric>>

CallMergeRelisted ==
    /\ fn = "none"
    /\ \E q \in Relistings :
           /\ fn' = "merge"
           /\ arg' = q
           /\ out' = merge(q.q1, q.q2)
    /\ UNCHANGED <<p1, p2, op, result, metric>>

NextRelisted ==
    \/ CallIntersect
    \/ CallMerge
    \/ CallIntersectRelisted
    \/ CallMergeRelisted

SpecRelisted == InitGrad /\ [][NextRelisted]_vars

---------------------------------------------------------------------------
(* The functions of one polygon, called on their own.  The operand p1 is   *)
(* any convex counter-clockwise lattice polygon of 2 to MaxPoints distinct *)
(* vertices, starting at any of its vertices; a vertex may lie on the line *)
(* through its neighbours, between them.  p2 is not used and stays empty.  *)

Dot3(a, b, c) ==
    RAdd(RMul(RAdd(b.x, RNeg(a.x)), RAdd(c.x, RNeg(b.x))),
         RMul(RAdd(b.y, RNeg(a.y)), RAdd(c.y, RNeg(b.y))))

TurnsLeft(a, b, c) ==
    \/ RLess(Zero, _cross(a, b, c))
    \/ (_cross(a, b, c) = Zero /\ RLess(Zero, Dot3(a, b, c)))

IsConvexCCW(s) ==
    /\ \A i, j \in 1..Len(s) : i # j => s[i] # s[j]
    /\ Len(s) >= 3 =>
          /\ \A i \in 0..(Len(s) - 1) :
                 TurnsLeft(vertices(s, i), vertices(s, _mod_inc(i, Len(s))),
                           vertices(s, _mod_inc(_mod_inc(i, Len(s)), Len(s))))
          /\ \E i \in 0..(Len(s) - 1) :
                 RLess(Zero, _cross(vertices(s, i), vertices(s, _mod_inc(i, Len(s))),
                             vertices(s, _mod_inc(_mod_inc(i, Len(s)), Len(s)))))

ConvexPolygons ==
    UNION {{s \in [1..n -> Lattice] : IsConvexCCW(s)} : n \in 2..MaxPoints}

InitPoly ==
    /\ p1 \in ConvexPolygons
    /\ p2 = <<>>
    /\ op = "idle"
    /\ result = NoResult
    /\ metric = NoMetric
    /\ fn = "none"
    /\ arg = <<>>
    /\ out = <<>>

(* dimension(p1, flag1, flag2).                                            *)
CallDimension ==
    /\ fn = "none"
    /\ fn' = "dimension"
    /\ arg' = <<>>
    /\ out' = dimension(p1)
    /\ UNCHANGED <<p1, p2, op, result, metric>>

(* The points a distance is asked for: the half-integer points of the      *)
(* lattice and of a margin of one unit around it.                          *)
QueryPoints ==
    {Pt(Norm(i, 2), Norm(j, 2)) : i, j \in (-2)..(2 * Grid + 2)}

(* distance(p1, q, idx) for a point q.                                     *)
CallDistance ==
    /\ fn = "none"
    /\ \E q \in QueryPoints :
           /\ fn' = "distance"
           /\ arg' = q
           /\ out' = distance_polyp(p1, q)
    /\ UNCHANGED <<p1, p2, op, result, metric>>

NextPoly ==
    \/ CallDimension
    \/ CallDistance
    \/ CallAreaGrad

SpecPoly == InitPoly /\ [][NextPoly]_vars

---------------------------------------------------------------------------
(* The same functions called on a polygon of zero area: 3 to MaxPoints     *)
(* distinct lattice points of one line, in any order.                      *)

IsFlat(s) ==
    /\ \A i, j \in 1..Len(s) : i # j => s[i] # s[j]
    /\ \A i, j, k \in 1..Len(s) : _cross(s[i], s[j], s[k]) = Zero

FlatPolygons ==
    UNION {{s \in [1..n -> Lattice] : IsFlat(s)} : n \in 3..MaxPoints}

InitFlat ==
    /\ p1 \in FlatPolygons
    /\ p2 = <<>>
    /\ op = "idle"
    /\ result = NoResult
    /\ metric = NoMetric
    /\ fn = "none"
    /\ arg = <<>>
    /\ out = <<>>

SpecFlat == InitFlat /\ [][NextPoly]_vars

---------------------------------------------------------------------------
(* distance_grad(Line2, Point2) called on its own: on a line with          *)
(* coefficients a, b in -LineRange..LineRange of rational hypot(a, b), a   *)
(* lattice point, an upstream gradient, and accumulators that are zeroed   *)
(* or hold earlier gradients.  No polygon is involved.                     *)

LineRange == 4

IsSquare(n) == \E r \in 0..n : r * r = n

Lines ==
    {Line2(Q(a), Q(b), Q(c)) :
        <<a, b, c>> \in {t \in ((-LineRange)..LineRange) \X ((-LineRange)..LineRange)
                                   \X ((-1)..1) :
                            t[1] * t[1] + t[2] * t[2] > 0
                            /\ IsSquare(t[1] * t[1] + t[2] * t[2])}}

LineAccumulators ==
    {[grad_l |-> Line2(Zero, Zero, Zero), grad_p |-> Pt(Zero, Zero)],
     [grad_l |-> Line2(One, Q(-2), Norm(1, 2)), grad_p |-> Pt(Q(3), Q(-1))]}

InitLine ==
    /\ p1 = <<>>
    /\ p2 = <<>>
    /\ op = "idle"
    /\ result = NoResult
    /\ metric = NoMetric
    /\ fn = "none"
    /\ arg = <<>>
    /\ out = <<>>

CallDistanceGradLine ==
    /\ fn = "none"
    /\ \E l \in Lines, p \in Lattice, grad \in Grads, A \in LineAccumulators :
           /\ fn' = "distance_grad"
           /\ arg' = [l |-> l, p |-> p, grad |-> grad, start |-> A]
           /\ out' = distance_grad_line(l, p, grad, A.grad_l, A.grad_p)
    /\ UNCHANGED <<p1, p2, op, result, metric>>

NextLine == CallDistanceGradLine

SpecLine == InitLine /\ [][NextLine]_vars

---------------------------------------------------------------------------
(* The axis-aligned boxes and the binding.  A caller holds two boxes of    *)
(* positive area, arg.a1 and arg.a2, and the polygons p1 and p2 that       *)
(* poly2_from_aabox2 makes of them; it calls the box functions on the      *)
(* boxes and the polygon functions on the polygons.  The conversions are   *)
(* also called on the boxes with max >= min, flat ones included.           *)

Boxes ==
    {AABox(Q(l), Q(r), Q(b), Q(t)) :
        <<l, r, b, t>> \in {q \in (0..Grid) \X (0..Grid) \X (0..Grid) \X (0..Grid) :
                               q[1] <= q[2] /\ q[3] <= q[4]}}

ShiftedBox == AABox(Norm(1, 2), Norm(3, 2), Zero, One)

PositiveBoxes ==
    {a \in Boxes : RLess(a.min_x, a.max_x) /\ RLess(a.min_y, a.max_y)} \cup {ShiftedBox}

InitBox ==
    /\ \E a1 \in PositiveBoxes, a2 \in PositiveBoxes :
           /\ arg = [a1 |-> a1, a2 |-> a2]
           /\ p1 = poly2_from_aabox2(a1)
           /\ p2 = poly2_from_aabox2(a2)
    /\ op = "idle"
    /\ result = NoResult
    /\ metric = NoMetric
    /\ fn = "none"
    /\ out = <<>>

(* intersect(a1, a2) of the boxes.                                         *)
CallIntersectBox ==
    /\ fn = "none"
    /\ fn' = "intersect_aabox2"
    /\ out' = intersect_aabox2(arg.a1, arg.a2)
    /\ UNCHANGED <<p1, p2, op, result, metric, arg>>

(* iou(a1, a2) of the boxes.                                               *)
CallIouBox ==
    /\ fn = "none"
    /\ fn' = "iou_aabox2"
    /\ out' = iou_aabox2(arg.a1, arg.a2)
    /\ UNCHANGED <<p1, p2, op, result, metric, arg>>

(* poly2_from_aabox2(a).                                                   *)
CallPoly2FromAABox2 ==
    /\ fn = "none"
    /\ \E a \in Boxes \cup {ShiftedBox} :
           /\ fn' = "poly2_from_aabox2"
           /\ out' = [a |-> a, poly |-> poly2_from_aabox2(a)]
    /\ UNCHANGED <<p1, p2, op, result, metric, arg>>

(* aabox2_from_poly2 of the polygon the conversion above returned.         *)
CallAABox2FromPoly2 ==
    /\ fn = "poly2_from_aabox2"
    /\ fn' = "aabox2_from_poly2"
    /\ out' = [a |-> out.a, poly |-> out.poly, box |-> aabox2_from_poly2(out.poly)]
    /\ UNCHANGED <<p1, p2, op, result, metric, arg>>

(* The lambda bound to "merge_": the polygon returned and the first        *)
(* nvertices entries of mflags.                                            *)
merge_(b1, b2) ==
    With(intersect(b1, b2), LAMBDA r :
        [r EXCEPT !.flags = SubSeq(r.flags, 1, nvertices(r.poly))])

CallMergeBinding ==
    /\ op = "idle"
    /\ op' = "merge_"
    /\ result' = merge_(p1, p2)
    /\ UNCHANGED <<p1, p2, metric, fn, arg, out>>

NextBox ==
    \/ CallIntersect
    \/ CallIou
    \/ CallMerge
    \/ CallMergeBinding
    \/ CallIntersectBox
    \/ CallIouBox
    \/ CallPoly2FromAABox2
    \/ CallAABox2FromPoly2

SpecBox == InitBox /\ [][NextBox]_vars

---------------------------------------------------------------------------
(* Geometric notions in which the properties below are stated.  They are   *)
(* computed exactly and independently of the algorithms above.             *)

RMin(a, b) == IF RLess(b, a) THEN b ELSE a

RMax(a, b) == IF RLess(a, b) THEN b ELSE a

(* Twice the signed area of the triangle a, b, c: positive when c is to    *)
(* the left of the directed line a -> b.                                   *)
Orient(a, b, c) ==
    RSub(RMul(RSub(b.x, a.x), RSub(c.y, a.y)),
         RMul(RSub(b.y, a.y), RSub(c.x, a.x)))

Edges(P) == {<<P[i], P[(i % Len(P)) + 1]>> : i \in 1..Len(P)}

Vertices(P) == {P[i] : i \in 1..Len(P)}

(* The point q lies inside or on the convex counter-clockwise polygon P.   *)
Inside(P, q) == \A e \in Edges(P) : RLeq(Zero, Orient(e[1], e[2], q))

(* The polygon R lies entirely inside (or on) the polygon P.               *)
Contains(P, R) == \A q \in Vertices(R) : Inside(P, q)

(* The convex polygons P and R have no common point: the line through an   *)
(* edge of one of them has the other strictly on its outer side.           *)
Separates(P, R) ==
    \E e \in Edges(P) : \A q \in Vertices(R) : RLess(Orient(e[1], e[2], q), Zero)

Disjoint(P, R) == Separates(P, R) \/ Separates(R, P)

(* The point q lies on the closed segment from a to b.                     *)
OnSegment(a, b, q) ==
    /\ Orient(a, b, q) = Zero
    /\ RLeq(RMin(a.x, b.x), q.x) /\ RLeq(q.x, RMax(a.x, b.x))
    /\ RLeq(RMin(a.y, b.y), q.y) /\ RLeq(q.y, RMax(a.y, b.y))

(* No vertex of either polygon lies on an edge of the other: the           *)
(* boundaries of P and R meet, if at all, where two edges properly cross.  *)
NoVertexOnEdge(P, R) ==
    /\ \A e \in Edges(P) : \A q \in Vertices(R) : ~OnSegment(e[1], e[2], q)
    /\ \A e \in Edges(R) : \A q \in Vertices(P) : ~OnSegment(e[1], e[2], q)

(* H lists a convex polygon counter-clockwise: H has positive area, lies   *)
(* to the left of each of its edges and repeats no vertex.                 *)
ConvexCCW(H) ==
    /\ Len(H) >= 3
    /\ Cardinality(Vertices(H)) = Len(H)
    /\ \A e \in Edges(H) : \A q \in Vertices(H) : RLeq(Zero, Orient(e[1], e[2], q))
    /\ \E e \in Edges(H) : \E q \in Vertices(H) : RLess(Zero, Orient(e[1], e[2], q))

(* H is the convex hull of the polygons P and R.                           *)
IsHull(H, P, R) ==
    /\ ConvexCCW(H)
    /\ Contains(H, P) /\ Contains(H, R)
    /\ Vertices(H) \subseteq (Vertices(P) \cup Vertices(R))

(* area(P1) + area(P2) - area(intersection), as iou and giou compute it.   *)
UnionArea(P, R, X) == RSub(RAdd(area(P), area(R)), area(X))

---------------------------------------------------------------------------
(* The properties.                                                         *)

(* C1: for the unit square and the unit square shifted by (0.5, 0), the    *)
(* default intersect returns a polygon of area 1/2, the union area         *)
(* area(P1) + area(P2) - area(intersection) is 3/2, and iou returns 1/3.   *)
C1_ShiftedSquares ==
    (p1 = UnitSquare /\ p2 = ShiftedSquare) =>
        /\ op = "intersect" =>
              /\ result.ret = "ok"
              /\ area(result.poly) = Norm(1, 2)
              /\ UnionArea(p1, p2, result.poly) = Norm(3, 2)
        /\ op = "iou" => (metric.ret = "ok" /\ metric.value = Norm(1, 3))

(* C2: for two identical unit squares giou returns 1 and diou returns 1:   *)
(* merge(A, A) completes without failing and yields a hull whose area and  *)
(* diameter are those of the square (area 1, squared diameter 2).          *)
C2_IdenticalSquares ==
    (p1 = UnitSquare /\ p2 = UnitSquare) =>
        /\ op = "giou" => (metric.ret = "ok" /\ metric.value = One)
        /\ op = "diou" => (metric.ret = "ok" /\ metric.value = One)
        /\ op = "merge" =>
              /\ result.ret = "ok"
              /\ area(result.poly) = One
              /\ ~dimension(result.poly).hang
              /\ dimension(result.poly).dmax = Two

(* C3: for every polygon A of the operands (convex, counter-clockwise, 3   *)
(* or more vertices, positive area), intersect(A, A) returns the vertices  *)
(* of A unchanged and iou(A, A) is 1.                                      *)
C3_SelfIntersection ==
    (p1 = p2) =>
        /\ op = "intersect" => (result.ret = "ok" /\ result.poly = p1)
        /\ op = "iou" => (metric.ret = "ok" /\ metric.value = One)

(* A triangle has been intersected with itself and came back unchanged.    *)
C3_Witness ==
    /\ op = "intersect" /\ p1 = p2 /\ nvertices(p1) = 3
    /\ RLess(Zero, area(p1))
    /\ result.ret = "ok" /\ result.poly = p1

(* C4: the polygon returned by intersect(A, B) has an area of at least 0   *)
(* and at most min(area(A), area(B)); stated here for the pairs in which   *)
(* no vertex of one operand lies on an edge of the other.                  *)
C4_AreaBound ==
    (op = "intersect" /\ result.ret = "ok" /\ NoVertexOnEdge(p1, p2)) =>
        /\ RLeq(Zero, area(result.poly))
        /\ RLeq(area(result.poly), RMin(area(p1), area(p2)))

(* C5: intersection is symmetric in its operands: intersect(A, B) and      *)
(* intersect(B, A) end the same way, and when they return, the returned    *)
(* polygons have equal areas; this includes operands of equal area and     *)
(* sweeps that end with no crossing found.                                 *)
C5_Symmetric ==
    (op = "intersect") =>
        LET swapped == intersect(p2, p1)
        IN  /\ result.ret = swapped.ret
            /\ result.ret = "ok" => area(result.poly) = area(swapped.poly)

(* Two different operands of equal area whose sweep ended with no crossing *)
(* recorded: each call returns its own first operand, of the same area.    *)
C5_Witness ==
    /\ op = "intersect" /\ p1 # p2 /\ area(p1) = area(p2)
    /\ result.ret = "ok" /\ result.swept /\ result.nx = 0
    /\ result.poly = p1
    /\ intersect(p2, p1).poly = p2

(* C6: the rotating-caliper intersect and the Sutherland-Hodgeman          *)
(* intersect return polygons of equal area; stated here for the pairs in   *)
(* which no vertex of one operand lies on an edge of the other.            *)
C6_SameAreaBothAlgorithms ==
    (op = "intersect" /\ result.ret = "ok" /\ NoVertexOnEdge(p1, p2)) =>
        LET sh == intersect_sh(p1, p2)
        IN  sh.ret = "ok" => area(result.poly) = area(sh.poly)

(* C7: merge(P1, P2) returns the convex hull of its operands: it contains  *)
(* every vertex of P1 and P2, its vertices are vertices of P1 or P2 in     *)
(* counter-clockwise convex order, and so its area is at least             *)
(* max(area(P1), area(P2)); stated here for the pairs in which no vertex   *)
(* of one operand lies on an edge of the other.                            *)
C7_MergeIsHull ==
    (op = "merge" /\ result.ret = "ok" /\ NoVertexOnEdge(p1, p2)) =>
        /\ IsHull(result.poly, p1, p2)
        /\ RLeq(RMax(area(p1), area(p2)), area(result.poly))

(* C8: for every pair with positive union area on which both return,       *)
(* giou(A, B) <= iou(A, B); stated here for the pairs in which no vertex   *)
(* of one operand lies on an edge of the other.                            *)
C8_GiouBelowIou ==
    (op = "giou" /\ metric.ret = "ok" /\ NoVertexOnEdge(p1, p2)) =>
        LET i == iou(p1, p2)
            x == intersect(p1, p2)
        IN  (i.ret = "ok" /\ RLess(Zero, UnionArea(p1, p2, x.poly)))
                => RLeq(metric.value, i.value)

(* C9: whenever the rotating-caliper intersect finishes its sweep with no  *)
(* crossing recorded (nx = 0), one operand lies entirely inside the other  *)
(* and the result is the operand of smaller area copied vertex for vertex, *)
(* with flag i equal to (i<<1)|1 when P1 is copied and i<<1 when P2 is;    *)
(* stated here for the pairs in which no vertex of one operand lies on an  *)
(* edge of the other.                                                      *)
C9_NoCrossingMeansContainment ==
    (/\ op = "intersect" /\ result.ret = "ok" /\ result.swept /\ result.nx = 0
     /\ NoVertexOnEdge(p1, p2)) =>
        /\ Contains(p1, p2) \/ Contains(p2, p1)
        /\ \/ /\ RLeq(area(p1), area(p2))
              /\ result.poly = p1
              /\ result.flags = [i \in 1..Len(p1) |-> (2 * (i - 1)) + 1]
           \/ /\ RLeq(area(p2), area(p1))
              /\ result.poly = p2
              /\ result.flags = [i \in 1..Len(p2) |-> 2 * (i - 1)]

(* C10: for two polygons with no common point, intersect returns the empty *)
(* polygon without failing under both algorithms, and iou reports nx = 0   *)
(* and the value 0.                                                        *)
C10_DisjointIsEmpty ==
    Disjoint(p1, p2) =>
        /\ op = "intersect" => (result.ret = "ok" /\ nvertices(result.poly) = 0)
        /\ op = "intersect_sh" => (result.ret = "ok" /\ nvertices(result.poly) = 0)
        /\ op = "iou" => (metric.ret = "ok" /\ metric.nx = 0 /\ metric.value = Zero)

(* C11: the flags an intersect call of either algorithm leaves rebuild its *)
(* result: _construct_intersection, given those flags and the vertex       *)
(* count, returns exactly the vertices the call returned.                  *)
C11_IntersectionRoundTrip ==
    (fn = "_construct_intersection") => out = result.poly

(* C12: the flags a merge call leaves rebuild its result: each flag names  *)
(* an operand (low bit 1 for p1, 0 for p2) and one of its vertices equal   *)
(* to the output vertex, so _construct_merged_hull returns the merge       *)
(* result.                                                                 *)
C12_MergeRoundTrip ==
    (fn = "_construct_merged_hull") =>
        /\ out = result.poly
        /\ \A k \in 1..Len(result.poly) :
               LET src == IF result.flags[k] % 2 = 1 THEN p1 ELSE p2
               IN  /\ result.flags[k] \div 2 < nvertices(src)
                   /\ vertices(src, result.flags[k] \div 2) = result.poly[k]

(* A merge whose hull takes vertices of both operands was rebuilt from its *)
(* flags.                                                                  *)
C12_Witness ==
    /\ fn = "_construct_merged_hull"
    /\ Len(out) >= 4
    /\ out = result.poly
    /\ \E j, k \in 1..Len(result.flags) :
           result.flags[j] % 2 = 1 /\ result.flags[k] % 2 = 0

(* The cross products of the bridge (P[i], R[j]) with the two neighbours   *)
(* of each of its endpoints that are not zero.                             *)
BridgeCrosses(P, R, i, j) ==
    {d \in {Orient(P[i + 1], R[j + 1], P[_mod_dec(i, Len(P)) + 1]),
            Orient(P[i + 1], R[j + 1], P[_mod_inc(i, Len(P)) + 1]),
            Orient(P[i + 1], R[j + 1], R[_mod_dec(j, Len(R)) + 1]),
            Orient(P[i + 1], R[j + 1], R[_mod_inc(j, Len(R)) + 1])} : d # Zero}

(* C13: _check_valid_bridge accepts the bridge exactly when some of the    *)
(* four cross products is not within eps of zero and all those have one    *)
(* sign, reverse telling that the sign is negative; it rejects the bridge  *)
(* when two of them differ in sign; and it fails on an assertion when all  *)
(* four are within eps of zero, as they are when the endpoints coincide.   *)
C13_ValidBridge ==
    (fn = "_check_valid_bridge") =>
        LET D == BridgeCrosses(p1, p2, arg.idx1, arg.idx2)
            neg == {d \in D : RLess(d, Zero)}
        IN  /\ out.valid = (D # {} /\ (neg = {} \/ neg = D))
            /\ out.valid => (out.reverse = (neg = D))
            /\ out.failed = (D = {})
            /\ (~out.valid /\ ~out.failed) = (neg # {} /\ neg # D)
            /\ (p1[arg.idx1 + 1] = p2[arg.idx2 + 1]) => out.failed

(* A bridge between distinct polygons was accepted with the polygons on    *)
(* its right.                                                              *)
C13_Witness ==
    /\ fn = "_check_valid_bridge"
    /\ p1 # p2
    /\ out.valid /\ out.reverse
    /\ Cardinality(BridgeCrosses(p1, p2, arg.idx1, arg.idx2)) >= 2

(* The number of iterations of the sweep loop of intersect, and of merge,  *)
(* on the operands P and R, the iteration that leaves the loop included.   *)
SweepIters(P, R) == rc_sweep(P, R, rc_start(P, R)).iters

MergeIters(P, R) == merge_sweep(P, R, merge_start(P, R)).iters

(* C14, as stated: every call of the rotating-caliper intersect and of     *)
(* merge terminates, its sweep loop running at most n1 + n2 iterations and *)
(* every search under a bridge returning.                                  *)
C14_SweepBoundAsStated ==
    /\ (op = "intersect") =>
           /\ result.ret # "hang"
           /\ SweepIters(p1, p2) <= nvertices(p1) + nvertices(p2)
    /\ (op = "merge") =>
           /\ result.ret # "hang"
           /\ MergeIters(p1, p2) <= nvertices(p1) + nvertices(p2)

(* C14, amended: every call of the rotating-caliper intersect and of merge *)
(* terminates; its sweep loop runs at most n1 + n2 + 1 iterations, at most *)
(* n1 + n2 that advance a pointer and the one that leaves the loop, and    *)
(* every search under a bridge returns.                                    *)
C14_Terminates ==
    /\ (op = "intersect") =>
           /\ result.ret # "hang"
           /\ SweepIters(p1, p2) <= nvertices(p1) + nvertices(p2) + 1
    /\ (op = "merge") =>
           /\ result.ret # "hang"
           /\ MergeIters(p1, p2) <= nvertices(p1) + nvertices(p2) + 1

(* A sweep of intersect went over every edge of both operands, searched    *)
(* under a bridge and returned.                                            *)
C14_Witness ==
    /\ op = "intersect"
    /\ result.ret = "ok"
    /\ result.nx > 0
    /\ SweepIters(p1, p2) = nvertices(p1) + nvertices(p2) + 1

(* The square of the largest distance between two vertices of P.          *)
MaxPairDist2(P) ==
    CHOOSE d \in {distance2_pp(P[i], P[j]) : i, j \in 1..Len(P)} :
        \A i, j \in 1..Len(P) : RLeq(distance2_pp(P[i], P[j]), d)

(* C15: for a convex counter-clockwise polygon with 2 or more vertices,    *)
(* dimension returns the largest distance between two of its vertices      *)
(* (compared through its square), and flag1 and flag2 are indices of       *)
(* vertices of the polygon at that distance from each other.               *)
C15_Dimension ==
    (fn = "dimension") =>
        /\ ~out.hang
        /\ out.dmax = MaxPairDist2(p1)
        /\ out.flag1 \in 0..(nvertices(p1) - 1)
        /\ out.flag2 \in 0..(nvertices(p1) - 1)
        /\ distance2_pp(vertices(p1, out.flag1), vertices(p1, out.flag2)) = out.dmax

(* dimension was called on a quadrilateral whose largest distance is a     *)
(* diagonal and on which v had to pass a vertex collinear with its         *)
(* neighbours.                                                             *)
C15_Witness ==
    /\ fn = "dimension"
    /\ nvertices(p1) = 4
    /\ out.dmax = MaxPairDist2(p1)
    /\ (out.flag1 - out.flag2) \in {2, -2}
    /\ \E i \in 0..3 : _cross(vertices(p1, i), vertices(p1, _mod_inc(i, 4)),
                              vertices(p1, _mod_inc(_mod_inc(i, 4), 4))) = Zero

(* The square of the distance from q to the segment from a to b, by        *)
(* projection of q on the segment.                                         *)
SegDist2(a, b, q) ==
    LET ab2 == distance2_pp(a, b)
        dot == RAdd(RMul(RSub(q.x, a.x), RSub(b.x, a.x)),
                    RMul(RSub(q.y, a.y), RSub(b.y, a.y)))
    IN  IF RLeq(dot, Zero) THEN distance2_pp(q, a)
        ELSE IF RLeq(ab2, dot) THEN distance2_pp(q, b)
        ELSE RDiv(RMul(Orient(a, b, q), Orient(a, b, q)), ab2)

(* The square of the distance from q to edge k of P (from vertex k).       *)
EdgeDist2(P, k, q) == SegDist2(vertices(P, k), vertices(P, _mod_inc(k, Len(P))), q)

StrictlyInside(P, q) ==
    \A k \in 0..(Len(P) - 1) :
        RLess(Zero, Orient(vertices(P, k), vertices(P, _mod_inc(k, Len(P))), q))

StrictlyOutside(P, q) ==
    \E k \in 0..(Len(P) - 1) :
        RLess(Orient(vertices(P, k), vertices(P, _mod_inc(k, Len(P))), q), Zero)

(* C16: distance(Polygon, Point, idx) is positive for a point strictly     *)
(* inside the polygon and negative for a point strictly outside; its       *)
(* magnitude is the least distance from the point to an edge, and idx is   *)
(* the start index of an edge at that distance.                            *)
C16_SignedDistance ==
    (fn = "distance" /\ nvertices(p1) >= 3) =>
        /\ StrictlyInside(p1, arg) => out.dmin.sg = 1
        /\ StrictlyOutside(p1, arg) => out.dmin.sg = -1
        /\ \A k \in 0..(nvertices(p1) - 1) : RLeq(out.dmin.sq, EdgeDist2(p1, k, arg))
        /\ out.idx \in 0..(nvertices(p1) - 1)
        /\ EdgeDist2(p1, out.idx, arg) = out.dmin.sq

(* The sum, entry by entry, of two vertex arrays of gradient polygons.     *)
VSum(a, b) ==
    [k \in 1..MaxPoints |-> Pt(RAdd(a[k].x, b[k].x), RAdd(a[k].y, b[k].y))]

(* What the recorded adjoint call c leaves in zeroed accumulators.         *)
Contribution(c) ==
    IF c.fn = "area_grad"
    THEN [ZeroAcc EXCEPT !.grad_p1 = area_grad(p1, c.grad, ZeroGrad)]
    ELSE IF c.fn = "intersect_grad"
    THEN intersect_grad(p1, p2, c.grad, result.flags, ZeroGrad, ZeroGrad)
    ELSE merge_grad(p1, p2, c.grad, result.flags, ZeroGrad, ZeroGrad)

(* The sum of the contributions of the recorded calls, for accumulator a   *)
(* ("grad_p1" or "grad_p2").                                               *)
RECURSIVE Contributions(_, _)
Contributions(a, k) ==
    IF k > Len(arg.calls) THEN ZeroGrad.vertices
    ELSE VSum(Contribution(arg.calls[k])[a].vertices, Contributions(a, k + 1))

(* C17: an adjoint only adds to its accumulators.  After one call, or two  *)
(* successive calls on the same accumulators, each accumulator holds what  *)
(* it held before the first call plus the contributions the calls produce  *)
(* from zeroed accumulators, and an entry that receives no contribution    *)
(* holds what it held.                                                     *)
C17_AdjointsAccumulate ==
    (fn \in {"area_grad", "intersect_grad", "merge_grad"}) =>
        \A a \in {"grad_p1", "grad_p2"} :
            /\ out[a].vertices = VSum(arg.start[a].vertices, Contributions(a, 1))
            /\ \A k \in 1..MaxPoints :
                   Contributions(a, 1)[k] = Pt(Zero, Zero)
                       => out[a].vertices[k] = arg.start[a].vertices[k]

(* intersect_grad was called after area_grad on accumulators that held     *)
(* gradients, an intersection vertex defined by an edge of each operand    *)
(* contributed, and an entry of grad_p1 received from both calls.          *)
C17_Witness ==
    /\ fn = "intersect_grad"
    /\ Len(arg.calls) = 2
    /\ arg.start # ZeroAcc
    /\ Len(result.flags) >= 3
    /\ \E i \in 1..Len(result.flags) :
           result.flags[i] % 2 # result.flags[_mod_dec(i - 1, Len(result.flags)) + 1] % 2
    /\ \E k \in 1..MaxPoints :
           /\ Contribution(arg.calls[1]).grad_p1.vertices[k] # Pt(Zero, Zero)
           /\ Contribution(arg.calls[2]).grad_p1.vertices[k] # Pt(Zero, Zero)
    /\ C17_AdjointsAccumulate

(* The polygon P with vertex i moved by (dx, dy).                         *)
Moved(P, i, dx, dy) ==
    [P EXCEPT ![i + 1] = Pt(RAdd(@.x, dx), RAdd(@.y, dy))]

(* C18: for n >= 3 vertices and upstream gradient g, area_grad adds        *)
(* g*(y[i+1] - y[i-1])/2 to the x accumulator and g*(x[i-1] - x[i+1])/2 to *)
(* the y accumulator of every vertex i, indices mod n, and nothing to the  *)
(* other entries; for n <= 2 it adds nothing.  These are g times the       *)
(* partial derivatives of area: area is linear in each coordinate, so a    *)
(* partial derivative is the change of area when the coordinate grows by 1.*)
C18_AreaGrad ==
    (fn = "area_grad") =>
        LET n == nvertices(p1)
            g == arg.calls[1].grad
            before == arg.start.grad_p1.vertices
            after == out.grad_p1.vertices
        IN  /\ n >= 3 =>
                  /\ \A i \in 0..(n - 1) :
                        LET prev == vertices(p1, _mod_dec(i, n))
                            next == vertices(p1, _mod_inc(i, n))
                        IN  /\ after[i + 1].x = RAdd(before[i + 1].x,
                                   RDiv(RMul(g, RSub(next.y, prev.y)), Two))
                            /\ after[i + 1].y = RAdd(before[i + 1].y,
                                   RDiv(RMul(g, RSub(prev.x, next.x)), Two))
                            /\ after[i + 1].x = RAdd(before[i + 1].x,
                                   RMul(g, RSub(area(Moved(p1, i, One, Zero)), area(p1))))
                            /\ after[i + 1].y = RAdd(before[i + 1].y,
                                   RMul(g, RSub(area(Moved(p1, i, Zero, One)), area(p1))))
                  /\ \A k \in (n + 1)..MaxPoints : after[k] = before[k]
            /\ n <= 2 => out = arg.start
            /\ out.grad_p2 = arg.start.grad_p2

(* area_grad was called on a quadrilateral with accumulators that held     *)
(* gradients, and changed them.                                            *)
C18_Witness ==
    /\ fn = "area_grad"
    /\ nvertices(p1) = 4
    /\ arg.calls[1].grad = Q(-2)
    /\ arg.start # ZeroAcc
    /\ \A k \in 1..4 : out.grad_p1.vertices[k] # arg.start.grad_p1.vertices[k]
    /\ C18_AreaGrad

(* C19: distance_grad(Line, Point) adds to grad_l.a, grad_l.b, grad_l.c,   *)
(* grad_p.x and grad_p.y the upstream gradient times the partial           *)
(* derivative of d = (a*x + b*y + c)/hypot(a, b) with respect to a, b, c,  *)
(* x and y.  With h = hypot(a, b) and s = a*x + b*y + c these are          *)
(* x/h - a*s/h^3, y/h - b*s/h^3, 1/h, a/h and b/h; d is linear in c, x and *)
(* y, so those three are also the change of d when the variable grows by 1.*)
C19_DistanceGradLine ==
    (fn = "distance_grad") =>
        LET l == arg.l
            p == arg.p
            g == arg.grad
            h == hypot(l.a, l.b)
            h3 == RMul(RMul(h, h), h)
            s == distance_lp(l, p)
            d == distance_line(l, p)
        IN  /\ out.grad_l.a = RAdd(arg.start.grad_l.a,
                   RMul(g, RSub(RDiv(p.x, h), RDiv(RMul(l.a, s), h3))))
            /\ out.grad_l.b = RAdd(arg.start.grad_l.b,
                   RMul(g, RSub(RDiv(p.y, h), RDiv(RMul(l.b, s), h3))))
            /\ out.grad_l.c = RAdd(arg.start.grad_l.c, RMul(g, RDiv(One, h)))
            /\ out.grad_p.x = RAdd(arg.start.grad_p.x, RMul(g, RDiv(l.a, h)))
            /\ out.grad_p.y = RAdd(arg.start.grad_p.y, RMul(g, RDiv(l.b, h)))
            /\ out.grad_l.c = RAdd(arg.start.grad_l.c,
                   RMul(g, RSub(distance_line([l EXCEPT !.c = RAdd(@, One)], p), d)))
            /\ out.grad_p.x = RAdd(arg.start.grad_p.x,
                   RMul(g, RSub(distance_line(l, Pt(RAdd(p.x, One), p.y)), d)))
            /\ out.grad_p.y = RAdd(arg.start.grad_p.y,
                   RMul(g, RSub(distance_line(l, Pt(p.x, RAdd(p.y, One))), d)))

(* C20: for operands with n1 and n2 vertices, the polygon returned by      *)
(* intersect (either algorithm) and by merge has at most n1 + n2 vertices: *)
(* no vertex or flag is written past index n1 + n2 - 1, nor past the       *)
(* capacity of the result, and the assertions on the capacity in the       *)
(* stitching of the rotating-caliper intersect do not fire.                *)
C20_VertexBound ==
    (op \in {"intersect", "intersect_sh", "merge"}) =>
        /\ Len(result.poly) <= nvertices(p1) + nvertices(p2)
        /\ Len(result.flags) <= nvertices(p1) + nvertices(p2)
        /\ result.ret # "overflow"
        /\ ~(result.ret = "assert" /\ Len(result.poly) > Capacity)

(* C21: converting a box with max >= min to its polygon and back gives    *)
(* the box again, field by field.                                          *)
C21_BoxRoundTrip ==
    (fn = "aabox2_from_poly2") => out.box = out.a

C21_Witness ==
    /\ fn = "aabox2_from_poly2"
    /\ RLess(out.a.min_x, out.a.max_x)
    /\ out.a.min_y = out.a.max_y
    /\ out.box = out.a

(* C22: the binding merge_ returns what merge returns for the same         *)
(* operands: the merged convex hull and its provenance flags.              *)
C22_MergeBinding ==
    (op = "merge_") =>
        /\ result.ret = merge(p1, p2).ret
        /\ result.poly = merge(p1, p2).poly
        /\ result.flags = merge(p1, p2).flags

(* C23: the sweep of intersect (rotating caliper) and of merge is a full   *)
(* sweep: when the loop is left by its break, every edge of both operands  *)
(* has been advanced over once, one edge in each earlier entry of the      *)
(* body, so both pointers are back at the vertices they started from.      *)
FullSweep(P, R, s0, s) ==
    (s0.ret = "run" /\ s.ret = "break") =>
        /\ s.iters = nvertices(P) + nvertices(R) + 1
        /\ s.pidx1 = s0.pidx1
        /\ s.pidx2 = s0.pidx2

C23_FullSweep ==
    /\ (op = "intersect") =>
           With(rc_start(p1, p2), LAMBDA s0 :
                FullSweep(p1, p2, s0, rc_sweep(p1, p2, s0)))
    /\ (op = "merge") =>
           With(merge_start(p1, p2), LAMBDA s0 :
                FullSweep(p1, p2, s0, merge_sweep(p1, p2, s0)))

(* C24: in the Sutherland-Hodgeman intersect, a vertex kept by the clip    *)
(* against the edge j of p2 carries the flag it had before that clip.  A   *)
(* crossing synthesized on an edge of the polygon being clipped gets the   *)
(* flag j<<1 when that edge leaves the kept side (its start vertex is      *)
(* strictly inside), and the flag of the start vertex of that edge when it *)
(* enters the kept side.                                                   *)

(* The polygon and flags that the clip against the edge j starts from.     *)
RECURSIVE ClipInput(_, _, _)
ClipInput(P, R, j) ==
    IF j = 0 THEN [poly |-> P, flags |-> copy_flags(P, 1)]
    ELSE sh_clip(edge_line(R, j - 1), j - 1, ClipInput(P, R, j - 1), 0,
                 [poly |-> <<>>, flags |-> <<>>])

(* The entry k of cur is a vertex of cut.                                  *)
KeptAt(cut, cur, k) == \E i \in 1..Len(cut.poly) : cut.poly[i] = cur.poly[k]

(* The start vertices i of the edges of cut on which the entry k of cur    *)
(* lies.                                                                   *)
CrossedEdges(cut, cur, k) ==
    {i \in 1..Len(cut.poly) :
        OnSegment(cut.poly[i], cut.poly[(i % Len(cut.poly)) + 1], cur.poly[k])}

(* The vertex q is strictly on the kept side of the edge j of R.           *)
StrictlyKept(R, j, q) ==
    RLess(Zero, Orient(vertices(R, j), vertices(R, _mod_inc(j, nvertices(R))), q))

(* The rule for one clip of cut against the edge j of R, giving cur.       *)
ClipFlags(R, j, cut, cur) ==
    \A k \in 1..Len(cur.poly) :
        IF KeptAt(cut, cur, k)
        THEN \E i \in 1..Len(cut.poly) :
                 cut.poly[i] = cur.poly[k] /\ cur.flags[k] = cut.flags[i]
        ELSE \E i \in CrossedEdges(cut, cur, k) :
                 cur.flags[k] = IF StrictlyKept(R, j, cut.poly[i])
                                THEN j * 2 ELSE cut.flags[i]

C24_ClipFlags ==
    (op = "intersect_sh") =>
        \A j \in 0..(nvertices(p2) - 1) :
            With(ClipInput(p1, p2, j), LAMBDA cut :
            With(sh_clip(edge_line(p2, j), j, cut, 0, [poly |-> <<>>, flags |-> <<>>]),
                 LAMBDA cur : ClipFlags(p2, j, cut, cur)))

(* C24 as stated: every synthesized crossing gets the flag of the clipping *)
(* edge.                                                                   *)
C24_ClipFlagsAsStated ==
    (op = "intersect_sh") =>
        \A j \in 0..(nvertices(p2) - 1) :
            With(ClipInput(p1, p2, j), LAMBDA cut :
            With(sh_clip(edge_line(p2, j), j, cut, 0, [poly |-> <<>>, flags |-> <<>>]),
                 LAMBDA cur :
                \A k \in 1..Len(cur.poly) :
                    IF KeptAt(cut, cur, k)
                    THEN \E i \in 1..Len(cut.poly) :
                             cut.poly[i] = cur.poly[k] /\ cur.flags[k] = cut.flags[i]
                    ELSE cur.flags[k] = j * 2))

(* A clip that synthesizes a leaving and an entering crossing, the second  *)
(* with a flag other than that of the clipping edge.                       *)
C24_Witness ==
    /\ op = "intersect_sh"
    /\ \E j \in 0..(nvertices(p2) - 1) :
           With(ClipInput(p1, p2, j), LAMBDA cut :
           With(sh_clip(edge_line(p2, j), j, cut, 0, [poly |-> <<>>, flags |-> <<>>]),
                LAMBDA cur :
               /\ \E k \in 1..Len(cur.poly) :
                      ~KeptAt(cut, cur, k) /\ cur.flags[k] = j * 2
               /\ \E k \in 1..Len(cur.poly) :
                      ~KeptAt(cut, cur, k) /\ cur.flags[k] # j * 2
               /\ \E k \in 1..Len(cur.poly) : KeptAt(cut, cur, k)))

(* C25: dimension returns for every polygon of 3 or more vertices, those  *)
(* of zero area included: the loop that advances v ends.                   *)
C25_DimensionTerminates ==
    (fn = "dimension" /\ nvertices(p1) >= 3) => ~out.hang

(* C26: giou_grad and iou_grad apply the chain rule.  With I and M the    *)
(* areas of the polygons rebuilt from the saved flags, U = A1 + A2 - I and *)
(* g the upstream gradient, giou_grad leaves the accumulators as the area  *)
(* adjoints of the operands called with g*(1/M - I/U^2), the area adjoint  *)
(* of the intersection with g*(1/U + I/U^2 - 1/M) and that of the merged   *)
(* hull with -g*U/M^2 leave them, their results routed through             *)
(* intersect_grad and merge_grad; iou_grad does so with -g*I/U^2 and       *)
(* g*(1/U + I/U^2).                                                        *)
RebuiltI == _construct_intersection(p1, p2, arg.xflags, metric.nx)

RebuiltM == _construct_merged_hull(p1, p2, arg.mflags, metric.nm)

UnionOfRebuilt == RSub(RAdd(area(p1), area(p2)), area(RebuiltI))

Chain(cA, cI) ==
    intersect_grad(p1, p2, UpstreamOf(area_grad(RebuiltI, cI, ZeroWide)), arg.xflags,
                   area_grad(p1, cA, arg.start.grad_p1),
                   area_grad(p2, cA, arg.start.grad_p2))

ChainM(cA, cI, cM) ==
    With(Chain(cA, cI), LAMBDA a :
        merge_grad(p1, p2, UpstreamOf(area_grad(RebuiltM, cM, ZeroWide)), arg.mflags,
                   a.grad_p1, a.grad_p2))

C26_ChainRule ==
    /\ (fn = "iou_grad") =>
           With2(area(RebuiltI), UnionOfRebuilt, LAMBDA I, U :
               out = Chain(RNeg(RMul(arg.grad, RDiv(I, RMul(U, U)))),
                           RMul(arg.grad, RAdd(RRecip(U), RDiv(I, RMul(U, U))))))
    /\ (fn = "giou_grad") =>
           With2(area(RebuiltI), UnionOfRebuilt, LAMBDA I, U :
           With(area(RebuiltM), LAMBDA M :
               out = ChainM(RMul(arg.grad, RSub(RRecip(M), RDiv(I, RMul(U, U)))),
                            RMul(arg.grad, RSub(RAdd(RRecip(U), RDiv(I, RMul(U, U))),
                                                RRecip(M))),
                            RNeg(RMul(arg.grad, RDiv(U, RMul(M, M)))))))

(* giou_grad was called on operands whose intersection and merged hull     *)
(* have positive area, and changed both accumulators.                      *)
C26_Witness ==
    /\ fn = "giou_grad"
    /\ RLess(Zero, area(RebuiltI))
    /\ RLess(area(RebuiltI), area(RebuiltM))
    /\ out.grad_p1.vertices # arg.start.grad_p1.vertices
    /\ out.grad_p2.vertices # arg.start.grad_p2.vertices

(* C27: the polygon operations refine the box operations.  For two boxes  *)
(* of positive area, the polygon intersect called on their polygons        *)
(* returns a polygon of the area of the box intersect returns, and the     *)
(* polygon iou returns the value the box iou returns.                      *)
C27_BoxRefinement ==
    /\ (op = "intersect" /\ fn = "intersect_aabox2") =>
           (result.ret = "ok" /\ area(result.poly) = area_aabox2(out))
    /\ (op = "iou" /\ fn = "iou_aabox2") =>
           (metric.ret = "ok" /\ metric.value = out)

(* C28: the results of merge and of intersect do not depend on the vertex *)
(* an operand is listed from: the call on a relisting returns the same set *)
(* of vertices and the same area.                                          *)
C28_ListingIndependent ==
    (op = fn /\ op \in {"intersect", "merge"}) =>
        /\ out.ret = result.ret
        /\ Vertices(out.poly) = Vertices(result.poly)
        /\ area(out.poly) = area(result.poly)

(* C29: every crossing recorded by the sweep of intersect (rotating        *)
(* caliper) is a crossing of the two boundaries: the point computed for    *)
(* the pair (x1indices[i], x2indices[i]) lies on both edges, and hence     *)
(* inside or on both operands; and the number nx of recorded crossings is  *)
(* even.                                                                   *)
CrossingPoint(P, R, a1, a2) ==
    intersect_ll(line2_from_pp(vertices(P, a1), vertices(P, _mod_inc(a1, nvertices(P)))),
                 line2_from_pp(vertices(R, a2), vertices(R, _mod_inc(a2, nvertices(R)))))

RealCrossing(P, R, a1, a2) ==
    With(CrossingPoint(P, R, a1, a2), LAMBDA x :
        /\ OnSegment(vertices(P, a1), vertices(P, _mod_inc(a1, nvertices(P))), x)
        /\ OnSegment(vertices(R, a2), vertices(R, _mod_inc(a2, nvertices(R))), x)
        /\ Inside(P, x)
        /\ Inside(R, x))

SweepOf(P, R) == rc_sweep(P, R, rc_start(P, R))

C29_RealCrossings ==
    (op = "intersect") =>
        With(SweepOf(p1, p2), LAMBDA s :
            (s.ret = "break" /\ s.nx > 0) =>
                /\ \A i \in 1..s.nx :
                       RealCrossing(p1, p2, s.x1indices[i], s.x2indices[i])
                /\ s.nx % 2 = 0)

(* C30: in the polygon diou, merge writes provenance flags only at the     *)
(* indices 0..7 of the local buffer mflags, and the two indices dimension  *)
(* returns are below the number of flags merge wrote, so that dflag1 and   *)
(* dflag2 are read from entries that were written.                         *)
MflagsSize == 8

DiouFlagsWritten(P, R) ==
    With(merge(P, R), LAMBDA pm :
        /\ Len(pm.flags) <= MflagsSize
        /\ (pm.ret = "ok" /\ ~dimension(pm.poly).hang) =>
               With(dimension(pm.poly), LAMBDA dm :
                   /\ dm.flag1 \in 0..(Len(pm.flags) - 1)
                   /\ dm.flag2 \in 0..(Len(pm.flags) - 1)))

C30_DiouFlagsWritten ==
    (op = "diou" /\ iou(p1, p2).ret = "ok") =>
        /\ DiouFlagsWritten(p1, p2)
        /\ (metric.ret = "ok") => (metric.dflag1 # -1 /\ metric.dflag2 # -1)

=============================================================================
